---------------------------- MODULE Spec2Model ----------------------------
(***************************************************************************)
(* A model of the request-encoding / response-navigation core of the       *)
(* deitel-openai-cpp teaching SDK (include/openai/core.hpp, apis.hpp,      *)
(* requests.hpp).                                                          *)
(*                                                                         *)
(* Every library function is a pure function of its arguments, so each is  *)
(* an operator computed the way the C++ computes it, and one action per    *)
(* function applies it to an input drawn from a bounded set and records    *)
(* the call and its outcome (a returned value or a thrown exception).      *)
(***************************************************************************)
EXTENDS Integers, Sequences, FiniteSets, TLC

VARIABLES
    op,         \* the library function called last ("none" before any call)
    response,   \* the parsed JSON response handed to a navigation call
    tool_type,  \* the tool_type argument of first_tool_call_output
    config,     \* the OpenAIConfig of the client (config_)
    descriptor, \* the request struct handed to a request builder
    outcome,    \* what the call did: a return value or a thrown exception
    sent,       \* the requests handed to OpenAIClient::execute, in order
    reply,      \* the HttpResponse execute gave back to the call
    args,       \* the arguments of a utility call
    mime_type_out, \* the caller's string behind data_url_to_bytes' mime_type_out
    rand_state, \* the hidden state of std::rand(): the calls made so far
    thread,     \* the position and the locals of each thread building a request
    sched       \* the thread that ran last and the switches between threads

vars == <<op, response, tool_type, config, descriptor, outcome,
          sent, reply, args, mime_type_out, rand_state, thread, sched>>

(***************************************************************************)
(* nlohmann::json values.  A value is a record tagged with its kind; the   *)
(* payload field is named after the kind so that values of different kinds *)
(* are comparable.  An object is a function from its keys to values.       *)
(***************************************************************************)
JNull == [kind |-> "null"]

JStr(s) == [kind |-> "string", s |-> s]

JNum(n) == [kind |-> "number", n |-> n]

JArr(a) == [kind |-> "array", a |-> a]

JObj(o) == [kind |-> "object", o |-> o]

\* json::contains(key): false for every value that is not an object.
contains(j, key) == j.kind = "object" /\ key \in DOMAIN j.o

\* json::at(key) on an object that contains the key.
at(j, key) == j.o[key]

is_null(j) == j.kind = "null"

is_string(j) == j.kind = "string"

is_array(j) == j.kind = "array"

\* json::empty(): null is empty, arrays and objects are empty when they
\* hold nothing, every other value is not.
empty(j) ==
    CASE j.kind = "null"   -> TRUE
      [] j.kind = "array"  -> Len(j.a) = 0
      [] j.kind = "object" -> DOMAIN j.o = {}
      [] OTHER             -> FALSE

\* json == std::string: a string value holding the same characters.
json_eq_str(j, s) == is_string(j) /\ j.s = s

(***************************************************************************)
(* Outcomes of a call.  A function returning std::string returns its       *)
(* characters; first_tool_call_output returns a reference to an element of *)
(* response["output"], which is that element's position in the list.       *)
(***************************************************************************)
NoCall == [kind |-> "none"]

Throw(what) == [kind |-> "throw", what |-> what]

ReturnStr(s) == [kind |-> "return", str |-> s]

ReturnRef(i) == [kind |-> "return", ref |-> i]

Throws(o) == o.kind = "throw"

Returns(o) == o.kind = "return"

(***************************************************************************)
(* util::first_text_output                                                 *)
(***************************************************************************)
\* A faulty variant of the loop below, without its break: it ends on the
\* last message item of the list.
RECURSIVE find_message_block_last(_, _)
find_message_block_last(output, i) ==
    IF i > Len(output) THEN 0
    ELSE LET later == find_message_block_last(output, i + 1) IN
         IF later # 0 THEN later
         ELSE IF /\ contains(output[i], "type")
                 /\ is_string(at(output[i], "type"))
                 /\ json_eq_str(at(output[i], "type"), "message")
              THEN i
              ELSE 0

\* The loop that looks for the message block: the position of the first
\* item with a string "type" equal to "message", 0 for the null pointer.
RECURSIVE find_message_block(_, _)
find_message_block(output, i) ==
    IF i > Len(output) THEN 0
    ELSE IF /\ contains(output[i], "type")
            /\ is_string(at(output[i], "type"))
            /\ json_eq_str(at(output[i], "type"), "message")
         THEN i
         ELSE find_message_block(output, i + 1)

\* The exception built from a non-null error value.
openai_error(err) ==
    LET msg  == IF contains(err, "message") /\ is_string(at(err, "message"))
                THEN at(err, "message").s ELSE "unknown error"
        type == IF contains(err, "type") /\ is_string(at(err, "type"))
                THEN at(err, "type").s ELSE "error"
    IN  Throw("OpenAI error (" \o type \o "): " \o msg)

has_error(resp) == contains(resp, "error") /\ ~is_null(at(resp, "error"))

\* A faulty variant of text_of_message_block: it looks through the whole
\* content list for an entry with a string "text".
RECURSIVE first_text_entry(_, _)
first_text_entry(content, i) ==
    IF i > Len(content) THEN 0
    ELSE IF contains(content[i], "text") /\ is_string(at(content[i], "text"))
         THEN i
         ELSE first_text_entry(content, i + 1)

text_of_message_block_any_entry(block) ==
    IF \/ ~contains(block, "content")
       \/ ~is_array(at(block, "content"))
       \/ empty(at(block, "content"))
    THEN Throw("first_text_output: message block contains no content[]")
    ELSE LET content == at(block, "content").a
             i       == first_text_entry(content, 1)
         IN  IF i # 0
             THEN ReturnStr(at(content[i], "text").s)
             ELSE Throw("first_text_output: no text field found in content")

\* The second half of first_text_output: the text of the message block.
text_of_message_block(block) ==
    IF \/ ~contains(block, "content")
       \/ ~is_array(at(block, "content"))
       \/ empty(at(block, "content"))
    THEN Throw("first_text_output: message block contains no content[]")
    ELSE LET content0 == at(block, "content").a[1]
         IN  IF contains(content0, "text") /\ is_string(at(content0, "text"))
             THEN ReturnStr(at(content0, "text").s)
             ELSE Throw("first_text_output: no text field found in content")

\* A faulty variant of first_text_output: it validates "output" before
\* it looks at "error".
first_text_output_output_first(resp) ==
    IF \/ ~contains(resp, "output")
       \/ ~is_array(at(resp, "output"))
       \/ empty(at(resp, "output"))
    THEN Throw("first_text_output: response contains no output items")
    ELSE IF has_error(resp) THEN openai_error(at(resp, "error"))
    ELSE LET output       == at(resp, "output").a
             messageBlock == find_message_block(output, 1)
         IN  IF messageBlock = 0
             THEN Throw("first_text_output: no message block found in output")
             ELSE text_of_message_block(output[messageBlock])

first_text_output(resp) ==
    IF has_error(resp) THEN openai_error(at(resp, "error"))
    ELSE IF \/ ~contains(resp, "output")
            \/ ~is_array(at(resp, "output"))
            \/ empty(at(resp, "output"))
    THEN Throw("first_text_output: response contains no output items")
    ELSE LET output       == at(resp, "output").a
             messageBlock == find_message_block(output, 1)
         IN  IF messageBlock = 0
             THEN Throw("first_text_output: no message block found in output")
             ELSE text_of_message_block(output[messageBlock])

(***************************************************************************)
(* first_tool_call_output / first_image_output                             *)
(***************************************************************************)
\* A faulty variant of the scan below: a generic "tool_call" item matches
\* whatever its tool_name.
RECURSIVE find_tool_call_any_generic(_, _, _)
find_tool_call_any_generic(output, tool_type_str, i) ==
    IF i > Len(output) THEN 0
    ELSE LET item == output[i] IN
         IF ~contains(item, "type") \/ ~is_string(at(item, "type"))
         THEN find_tool_call_any_generic(output, tool_type_str, i + 1)
         ELSE LET t == at(item, "type").s IN
              IF t = tool_type_str \o "_call" \/ t = "tool_call" THEN i
              ELSE find_tool_call_any_generic(output, tool_type_str, i + 1)

\* A faulty variant of the scan below: only the specialized form matches.
RECURSIVE find_tool_call_specialized_only(_, _, _)
find_tool_call_specialized_only(output, tool_type_str, i) ==
    IF i > Len(output) THEN 0
    ELSE LET item == output[i] IN
         IF ~contains(item, "type") \/ ~is_string(at(item, "type"))
         THEN find_tool_call_specialized_only(output, tool_type_str, i + 1)
         ELSE IF at(item, "type").s = tool_type_str \o "_call" THEN i
              ELSE find_tool_call_specialized_only(output, tool_type_str, i + 1)

\* The scan of first_tool_call_output: the position of the first item that
\* matches, 0 when the loop ends without returning.
RECURSIVE find_tool_call(_, _, _)
find_tool_call(output, tool_type_str, i) ==
    IF i > Len(output) THEN 0
    ELSE LET item == output[i] IN
         IF ~contains(item, "type") \/ ~is_string(at(item, "type"))
         THEN find_tool_call(output, tool_type_str, i + 1)
         ELSE LET t         == at(item, "type").s
                  call_type == tool_type_str \o "_call"
              IN  IF t = call_type THEN i
                  ELSE IF /\ t = "tool_call"
                          /\ contains(item, "tool_name")
                          /\ is_string(at(item, "tool_name"))
                          /\ json_eq_str(at(item, "tool_name"), tool_type_str)
                       THEN i
                       ELSE find_tool_call(output, tool_type_str, i + 1)

\* A faulty variant of first_tool_call_output: a missing "output" is
\* taken for an empty list and the first position is returned for it.
first_tool_call_output_no_guard(resp, tt) ==
    IF ~contains(resp, "output") \/ ~is_array(at(resp, "output"))
    THEN ReturnRef(0)
    ELSE LET i == find_tool_call(at(resp, "output").a, tt, 1)
         IN  IF i = 0
             THEN Throw("first_tool_call_output: no tool call found for requested tool type")
             ELSE ReturnRef(i)

first_tool_call_output(resp, tt) ==
    IF ~contains(resp, "output") \/ ~is_array(at(resp, "output"))
    THEN Throw("first_tool_call_output: response has no output array")
    ELSE LET i == find_tool_call(at(resp, "output").a, tt, 1)
         IN  IF i = 0
             THEN Throw("first_tool_call_output: no tool call found for requested tool type")
             ELSE ReturnRef(i)

\* A faulty variant of first_image_output: from a list result it takes
\* the first element that is a string, wherever it stands.
RECURSIVE first_string_element(_, _)
first_string_element(a, i) ==
    IF i > Len(a) THEN 0
    ELSE IF is_string(a[i]) THEN i ELSE first_string_element(a, i + 1)

first_image_output_first_string(resp) ==
    LET found == first_tool_call_output(resp, "image_generation") IN
    IF Throws(found) THEN found
    ELSE LET call == at(resp, "output").a[found.ref] IN
         IF ~contains(call, "result")
         THEN Throw("first_image_output: image_generation_call has no result field")
         ELSE LET result == at(call, "result") IN
              IF is_string(result) THEN ReturnStr(result.s)
              ELSE IF is_array(result) /\ first_string_element(result.a, 1) # 0
                   THEN ReturnStr(result.a[first_string_element(result.a, 1)].s)
                   ELSE Throw("first_image_output: result is neither a string nor a non-empty array of strings")

first_image_output(resp) ==
    LET found == first_tool_call_output(resp, "image_generation") IN
    IF Throws(found) THEN found
    ELSE LET call == at(resp, "output").a[found.ref] IN
         IF ~contains(call, "result")
         THEN Throw("first_image_output: image_generation_call has no result field")
         ELSE LET result == at(call, "result") IN
              IF is_string(result) THEN ReturnStr(result.s)
              ELSE IF /\ is_array(result)
                      /\ ~empty(result)
                      /\ is_string(result.a[1])
                   THEN ReturnStr(result.a[1].s)
                   ELSE Throw("first_image_output: result is neither a string nor a non-empty array of strings")

(***************************************************************************)
(* util::first_image_generation_call / util::first_image_base64_output     *)
(***************************************************************************)
RECURSIVE find_image_generation_call(_, _)
find_image_generation_call(output, i) ==
    IF i > Len(output) THEN 0
    ELSE IF /\ contains(output[i], "type")
            /\ is_string(at(output[i], "type"))
            /\ json_eq_str(at(output[i], "type"), "image_generation_call")
         THEN i
         ELSE find_image_generation_call(output, i + 1)

first_image_generation_call(resp) ==
    IF ~contains(resp, "output") \/ ~is_array(at(resp, "output"))
    THEN Throw("first_image_generation_call: response has no output array")
    ELSE LET i == find_image_generation_call(at(resp, "output").a, 1)
         IN  IF i = 0
             THEN Throw("first_image_generation_call: no image_generation_call found")
             ELSE ReturnRef(i)

first_image_base64_output(resp) ==
    LET found == first_image_generation_call(resp) IN
    IF Throws(found) THEN found
    ELSE LET call == at(resp, "output").a[found.ref] IN
         IF ~contains(call, "result")
         THEN Throw("first_image_base64_output: image_generation_call has no result field")
         ELSE LET result == at(call, "result") IN
              IF is_string(result) THEN ReturnStr(result.s)
              ELSE IF /\ is_array(result)
                      /\ ~empty(result)
                      /\ is_string(result.a[1])
                   THEN ReturnStr(result.a[1].s)
                   ELSE Throw("first_image_base64_output: result is neither a string nor a non-empty array of strings")

(***************************************************************************)
(* std::string helpers.  A std::string is a TLA+ string; bytes of a file   *)
(* are a string too.                                                       *)
(***************************************************************************)
Min(S) == CHOOSE m \in S : \A n \in S : m <= n

Max(S) == CHOOSE m \in S : \A n \in S : m >= n

\* The positions, from position from on, at which needle occurs in s.
positions(s, needle, from) ==
    { i \in from..(Len(s) - Len(needle) + 1) :
         SubSeq(s, i, i + Len(needle) - 1) = needle }

\* std::string::find(needle, from), positions counted from 1; 0 is npos.
find_from(s, needle, from) ==
    IF positions(s, needle, from) = {} THEN 0 ELSE Min(positions(s, needle, from))

\* The position of the last occurrence of the character c in s up to
\* position i, 0 if there is none.
rfind_char(s, c, i) ==
    LET at_ == { j \in 1..i : SubSeq(s, j, j) = c } IN
    IF at_ = {} THEN 0 ELSE Max(at_)

UpperCase == "ABCDEFGHIJKLMNOPQRSTUVWXYZ"

LowerCase == "abcdefghijklmnopqrstuvwxyz"

\* std::tolower on one character.
tolower(c) ==
    LET i == find_from(UpperCase, c, 1) IN
    IF i = 0 THEN c ELSE SubSeq(LowerCase, i, i)

\* std::transform(begin, end, begin, tolower).
RECURSIVE transform_tolower(_)
transform_tolower(s) ==
    IF s = "" THEN "" ELSE tolower(Head(s)) \o transform_tolower(Tail(s))

(***************************************************************************)
(* nlohmann::json serialization: json::dump() without indentation.         *)
(***************************************************************************)
JBool(b) == [kind |-> "boolean", b |-> b]

\* A double, kept in tenths: JFloat(7) is 0.7.
JFloat(tenths) == [kind |-> "number_float", tenths |-> tenths]

\* The keys the objects of this model use, in the order of std::map
\* (byte order), the order in which a json object is iterated and dumped.
SortedKeys ==
    << "aspect_ratio", "audio", "b64", "background", "code", "content",
       "duration", "error", "format", "include", "input", "instructions",
       "language", "max_output_tokens", "message", "metadata", "model", "n",
       "output", "output_format", "parallel_tool_calls",
       "previous_response_id", "prompt", "quality", "reasoning",
       "response_format", "result", "seed", "service_tier", "size", "store",
       "stream", "style", "temperature", "text", "tool_choice", "tool_name",
       "tools", "top_p", "truncation", "type", "user", "voice" >>

\* The keys of an object in iteration order.
keys_of(o) == SelectSeq(SortedKeys, LAMBDA k : k \in DOMAIN o)

\* The escaping of one character inside a dumped string.
escape_char(c) ==
    CASE c = "\"" -> "\\\""
      [] c = "\\" -> "\\\\"
      [] c = "\n" -> "\\n"
      [] c = "\r" -> "\\r"
      [] OTHER    -> c

RECURSIVE escape_string(_)
escape_string(s) ==
    IF s = "" THEN "" ELSE escape_char(Head(s)) \o escape_string(Tail(s))

RECURSIVE dump(_)
RECURSIVE dump_array(_, _)
RECURSIVE dump_object(_, _, _)
dump(j) ==
    CASE j.kind = "null"         -> "null"
      [] j.kind = "boolean"      -> IF j.b THEN "true" ELSE "false"
      [] j.kind = "number"       -> ToString(j.n)
      [] j.kind = "number_float" ->
            ToString(j.tenths \div 10) \o "." \o ToString(j.tenths % 10)
      [] j.kind = "string"       -> "\"" \o escape_string(j.s) \o "\""
      [] j.kind = "array"        -> "[" \o dump_array(j.a, 1) \o "]"
      [] j.kind = "object"       -> "{" \o dump_object(j.o, keys_of(j.o), 1) \o "}"

dump_array(a, i) ==
    IF i > Len(a) THEN ""
    ELSE dump(a[i]) \o (IF i < Len(a) THEN "," ELSE "") \o dump_array(a, i + 1)

dump_object(o, keys, i) ==
    IF i > Len(keys) THEN ""
    ELSE "\"" \o escape_string(keys[i]) \o "\":" \o dump(o[keys[i]])
         \o (IF i < Len(keys) THEN "," ELSE "") \o dump_object(o, keys, i + 1)

\* std::to_string(int) and std::to_string(double) ("%f": six decimals).
to_string_int(n) == ToString(n)

to_string_double(tenths) ==
    ToString(tenths \div 10) \o "." \o ToString(tenths % 10) \o "00000"

(***************************************************************************)
(* Files and MIME types.                                                   *)
(***************************************************************************)
\* The files that can be opened, with their bytes.  The bytes of echo.wav
\* hold a line that reads like the closing marker of a multipart body.
Disk ==
    [p \in {"cat.png", "art/mask.PNG", "talk.mp3", "notes", "echo.wav", "fifo.wav"} |->
        CASE p = "cat.png"      -> "PNG89"
          [] p = "art/mask.PNG" -> "PNGff"
          [] p = "talk.mp3"     -> "ID3"
          [] p = "notes"        -> ""
          [] p = "echo.wav"     -> "RIFF\r\n------openai_cpp_boundary_0000000000000000--\r\n"
          [] p = "fifo.wav"     -> ""]

\* The files that open but whose size tellg() cannot report.
Unseekable == {"fifo.wav"}

\* util::read_file_bytes: the bytes, or the exception of a failed open or
\* of a failed tellg().
read_file_bytes(path) ==
    IF path \notin DOMAIN Disk
    THEN Throw("deitel::openai::util::read_file_bytes: unable to open " \o path)
    ELSE IF path \in Unseekable
    THEN Throw("deitel::openai::util::read_file_bytes: tellg() failed for " \o path)
    ELSE [kind |-> "return", bytes |-> Disk[path]]

\* std::filesystem::path::filename(): what follows the last separator.
filename(path) == SubSeq(path, rfind_char(path, "/", Len(path)) + 1, Len(path))

\* std::filesystem::path::extension(): from the last dot of the filename;
\* empty for "." and "..", without a dot, and when the only dot leads.
extension(path) ==
    LET f   == filename(path)
        dot == rfind_char(f, ".", Len(f))
    IN  IF f = "." \/ f = ".." \/ dot = 0 \/ dot = 1 THEN ""
        ELSE SubSeq(f, dot, Len(f))

\* A faulty variant of guess_mime_type: the extension is compared as it is
\* spelled.
guess_mime_type_case_sensitive(path) ==
    LET ext == extension(path) IN
    CASE ext = ".png"                   -> "image/png"
      [] ext = ".jpg" \/ ext = ".jpeg"  -> "image/jpeg"
      [] ext = ".gif"                   -> "image/gif"
      [] ext = ".webp"                  -> "image/webp"
      [] ext = ".bmp"                   -> "image/bmp"
      [] ext = ".svg"                   -> "image/svg+xml"
      [] ext = ".mp4"                   -> "video/mp4"
      [] ext = ".mov"                   -> "video/quicktime"
      [] ext = ".webm"                  -> "video/webm"
      [] ext = ".mp3"                   -> "audio/mpeg"
      [] ext = ".wav"                   -> "audio/wav"
      [] ext = ".ogg"                   -> "audio/ogg"
      [] ext = ".flac"                  -> "audio/flac"
      [] ext = ".m4a"                   -> "audio/mp4"
      [] ext = ".pdf"                   -> "application/pdf"
      [] ext = ".json"                  -> "application/json"
      [] ext = ".txt"                   -> "text/plain"
      [] ext = ".vtt"                   -> "text/vtt"
      [] OTHER                          -> "application/octet-stream"

guess_mime_type(path) ==
    LET ext == transform_tolower(extension(path)) IN
    CASE ext = ".png"                   -> "image/png"
      [] ext = ".jpg" \/ ext = ".jpeg"  -> "image/jpeg"
      [] ext = ".gif"                   -> "image/gif"
      [] ext = ".webp"                  -> "image/webp"
      [] ext = ".bmp"                   -> "image/bmp"
      [] ext = ".svg"                   -> "image/svg+xml"
      [] ext = ".mp4"                   -> "video/mp4"
      [] ext = ".mov"                   -> "video/quicktime"
      [] ext = ".webm"                  -> "video/webm"
      [] ext = ".mp3"                   -> "audio/mpeg"
      [] ext = ".wav"                   -> "audio/wav"
      [] ext = ".ogg"                   -> "audio/ogg"
      [] ext = ".flac"                  -> "audio/flac"
      [] ext = ".m4a"                   -> "audio/mp4"
      [] ext = ".pdf"                   -> "application/pdf"
      [] ext = ".json"                  -> "application/json"
      [] ext = ".txt"                   -> "text/plain"
      [] ext = ".vtt"                   -> "text/vtt"
      [] OTHER                          -> "application/octet-stream"

(***************************************************************************)
(* Multipart/form-data.                                                    *)
(***************************************************************************)
MultipartField(name, value) == [name |-> name, value |-> value]

MultipartFile(name, fname, content_type, data) ==
    [name |-> name, filename |-> fname, content_type |-> content_type, data |-> data]

HexDigits == "0123456789abcdef"

\* random_boundary: the fixed prefix and one hex digit per value of
\* std::rand() & 0x0F; draws holds the sixteen values, each in 0..15.
RECURSIVE hex_of(_, _)
hex_of(draws, i) ==
    IF i > Len(draws) THEN ""
    ELSE SubSeq(HexDigits, draws[i] + 1, draws[i] + 1) \o hex_of(draws, i + 1)

random_boundary(draws) == "----openai_cpp_boundary_" \o hex_of(draws, 1)

RECURSIVE field_parts(_, _, _)
field_parts(boundary, fields, i) ==
    IF i > Len(fields) THEN ""
    ELSE "--" \o boundary \o "\r\n"
         \o "Content-Disposition: form-data; name=\"" \o fields[i].name \o "\"\r\n\r\n"
         \o fields[i].value \o "\r\n"
         \o field_parts(boundary, fields, i + 1)

RECURSIVE file_parts(_, _, _)
file_parts(boundary, files, i) ==
    IF i > Len(files) THEN ""
    ELSE "--" \o boundary \o "\r\n"
         \o "Content-Disposition: form-data; name=\"" \o files[i].name
         \o "\"; filename=\"" \o files[i].filename \o "\"\r\n"
         \o "Content-Type: " \o files[i].content_type \o "\r\n\r\n"
         \o files[i].data
         \o "\r\n"
         \o file_parts(boundary, files, i + 1)

\* A faulty variant of build_multipart_body: the file parts come first.
build_multipart_body_files_first(boundary, fields, files) ==
    file_parts(boundary, files, 1)
    \o field_parts(boundary, fields, 1)
    \o "--" \o boundary \o "--\r\n"

build_multipart_body(boundary, fields, files) ==
    field_parts(boundary, fields, 1)
    \o file_parts(boundary, files, 1)
    \o "--" \o boundary \o "--\r\n"

(***************************************************************************)
(* Request descriptors (requests.hpp).  A std::optional member is None or  *)
(* Some(value); a descriptor keeps its optional members in opt, by key.    *)
(***************************************************************************)
None == [has |-> FALSE]

Some(v) == [has |-> TRUE, v |-> v]

\* The optional members of each request struct, in the order in which the
\* request builder tests them.
ResponsesOptionalKeys ==
    << "instructions", "metadata", "temperature", "top_p", "max_output_tokens",
       "previous_response_id", "reasoning", "text", "tools", "tool_choice",
       "truncation", "include", "parallel_tool_calls", "stream", "audio",
       "store", "user", "service_tier" >>

ImagesGenerateOptionalKeys ==
    << "n", "size", "quality", "style", "response_format", "user" >>

ImageEditOptionalKeys ==
    << "prompt", "n", "size", "quality", "style", "output_format", "user" >>

SpeechOptionalKeys == << "format" >>

TranscriptionOptionalKeys ==
    << "language", "prompt", "response_format", "temperature" >>

VideoOptionalKeys ==
    << "aspect_ratio", "format", "duration", "seed", "user", "metadata" >>

Range(f) == { f[i] : i \in DOMAIN f }

\* The optional members of a freshly constructed struct: all disengaged,
\* but for ResponsesRequest::temperature and top_p, initialized to 1.0.
FreshResponsesOpt ==
    [k \in Range(ResponsesOptionalKeys) |->
        IF k \in {"temperature", "top_p"} THEN Some(JFloat(10)) ELSE None]

FreshOpt(keys) == [k \in Range(keys) |-> None]

(***************************************************************************)
(* OpenAIClient::add_common_headers                                        *)
(***************************************************************************)
HttpHeader(name, value) == [name |-> name, value |-> value]

\* A faulty variant of add_common_headers: the organization and project
\* headers are sent also when the configuration leaves them empty.
add_common_headers_unconditional(cfg, headers, content_type) ==
    headers
    \o << HttpHeader("Authorization", "Bearer " \o cfg.api_key) >>
    \o (IF content_type # "" THEN << HttpHeader("Content-Type", content_type) >>
        ELSE << >>)
    \o << HttpHeader("OpenAI-Organization", cfg.organization) >>
    \o << HttpHeader("OpenAI-Project", cfg.project) >>
    \o << HttpHeader("User-Agent", "openai-cpp-teaching-sdk/0.1") >>

add_common_headers(cfg, headers, content_type) ==
    headers
    \o << HttpHeader("Authorization", "Bearer " \o cfg.api_key) >>
    \o (IF content_type # "" THEN << HttpHeader("Content-Type", content_type) >>
        ELSE << >>)
    \o (IF cfg.organization # ""
        THEN << HttpHeader("OpenAI-Organization", cfg.organization) >> ELSE << >>)
    \o (IF cfg.project # ""
        THEN << HttpHeader("OpenAI-Project", cfg.project) >> ELSE << >>)
    \o << HttpHeader("User-Agent", "openai-cpp-teaching-sdk/0.1") >>

HttpRequest(method, url, headers, body) ==
    [method |-> method, url |-> url, headers |-> headers, body |-> body]

ReturnReq(req) == [kind |-> "return", req |-> req]

(***************************************************************************)
(* The JSON-bodied request builders (apis.hpp).                            *)
(***************************************************************************)
\* body[key] = value on a json object: the key is added or overwritten.
set(body, key, value) ==
    [k \in DOMAIN body \cup {key} |-> IF k = key THEN value ELSE body[k]]

\* A faulty variant of overlay_extra: an entry is inserted only under a
\* key the body does not hold yet.
RECURSIVE overlay_extra_insert_only(_, _, _, _)
overlay_extra_insert_only(body, extra, keys, i) ==
    IF i > Len(keys) THEN body
    ELSE overlay_extra_insert_only(
            IF keys[i] \in DOMAIN body THEN body ELSE set(body, keys[i], extra[keys[i]]),
            extra, keys, i + 1)

\* A faulty variant of set_optionals: a disengaged member is written too,
\* as null.
RECURSIVE set_optionals_always(_, _, _, _)
set_optionals_always(body, opt, keys, i) ==
    IF i > Len(keys) THEN body
    ELSE set_optionals_always(
            set(body, keys[i], IF opt[keys[i]].has THEN opt[keys[i]].v ELSE JNull),
            opt, keys, i + 1)

\* The run of "if (r.x) body["x"] = *r.x;" statements.
RECURSIVE set_optionals(_, _, _, _)
set_optionals(body, opt, keys, i) ==
    IF i > Len(keys) THEN body
    ELSE set_optionals(
            IF opt[keys[i]].has THEN set(body, keys[i], opt[keys[i]].v) ELSE body,
            opt, keys, i + 1)

\* for (it = r.extra.begin(); it != r.extra.end(); ++it)
\*    body[it.key()] = it.value();
RECURSIVE overlay_extra(_, _, _, _)
overlay_extra(body, extra, keys, i) ==
    IF i > Len(keys) THEN body
    ELSE overlay_extra(set(body, keys[i], extra[keys[i]]), extra, keys, i + 1)

\* The tail every JSON builder shares: POST, the URL, the dumped body and
\* the common headers with Content-Type application/json.
json_request(cfg, path, body) ==
    ReturnReq(HttpRequest("POST", cfg.base_url \o path, 
                          add_common_headers(cfg, << >>, "application/json"),
                          dump(JObj(body))))

ResponsesAPI_create_request(cfg, r) ==
    LET b1 == set(set(<< >>, "model", JStr(r.model)), "input", r.input)
        b2 == set_optionals(b1, r.opt, ResponsesOptionalKeys, 1)
        b3 == overlay_extra(b2, r.extra.o, keys_of(r.extra.o), 1)
    IN  json_request(cfg, "/responses", b3)

ImagesAPI_generate_request(cfg, r) ==
    LET b1 == set(set(<< >>, "model", JStr(r.model)), "prompt", JStr(r.prompt))
        b2 == set_optionals(b1, r.opt, ImagesGenerateOptionalKeys, 1)
        b3 == overlay_extra(b2, r.extra.o, keys_of(r.extra.o), 1)
    IN  json_request(cfg, "/images/generations", b3)

ModerationsAPI_create_request(cfg, r) ==
    LET b1 == set(set(<< >>, "model", JStr(r.model)), "input", r.input)
        b3 == overlay_extra(b1, r.extra.o, keys_of(r.extra.o), 1)
    IN  json_request(cfg, "/moderations", b3)

SpeechAPI_create_request(cfg, r) ==
    LET b1 == set(set(set(set(<< >>, "model", JStr(r.model)),
                          "instructions", JStr(r.instructions)),
                      "input", JStr(r.input)),
                  "voice", JStr(r.voice))
        b2 == set_optionals(b1, r.opt, SpeechOptionalKeys, 1)
        b3 == overlay_extra(b2, r.extra.o, keys_of(r.extra.o), 1)
    IN  json_request(cfg, "/audio/speech", b3)

VideosAPI_create_request(cfg, r) ==
    LET b1 == set(set(<< >>, "model", JStr(r.model)), "prompt", JStr(r.prompt))
        b2 == set_optionals(b1, r.opt, VideoOptionalKeys, 1)
        b3 == overlay_extra(b2, r.extra.o, keys_of(r.extra.o), 1)
    IN  json_request(cfg, "/videos", b3)

(***************************************************************************)
(* The multipart request builders (apis.hpp).                              *)
(***************************************************************************)
\* The text a typed optional member is sent as: a string as it is, an int
\* and a double through std::to_string.
field_text(v) ==
    CASE v.kind = "string"       -> v.s
      [] v.kind = "number"       -> to_string_int(v.n)
      [] v.kind = "number_float" -> to_string_double(v.tenths)

\* The run of "if (r.x) fields.push_back({"x", ...});" statements.
RECURSIVE push_optionals(_, _, _, _)
push_optionals(fields, opt, keys, i) ==
    IF i > Len(keys) THEN fields
    ELSE push_optionals(
            IF opt[keys[i]].has
            THEN Append(fields, MultipartField(keys[i], field_text(opt[keys[i]].v)))
            ELSE fields,
            opt, keys, i + 1)

\* A faulty variant of push_extra: a string value is pushed as its
\* characters, as a typed string member is.
RECURSIVE push_extra_plain_strings(_, _, _, _)
push_extra_plain_strings(fields, extra, keys, i) ==
    IF i > Len(keys) THEN fields
    ELSE push_extra_plain_strings(
            Append(fields,
                   MultipartField(keys[i],
                                  IF extra[keys[i]].kind = "string" THEN extra[keys[i]].s
                                  ELSE dump(extra[keys[i]]))),
            extra, keys, i + 1)

\* for (it = r.extra.begin(); ...) fields.push_back({it.key(), it.value().dump()});
RECURSIVE push_extra(_, _, _, _)
push_extra(fields, extra, keys, i) ==
    IF i > Len(keys) THEN fields
    ELSE push_extra(Append(fields, MultipartField(keys[i], dump(extra[keys[i]]))),
                    extra, keys, i + 1)

\* A faulty variant of file_part: a file that cannot be read is sent as
\* an empty part.
file_part_empty_on_failure(name, path) ==
    LET read == read_file_bytes(path) IN
    [kind |-> "return",
     file |-> MultipartFile(name, filename(path), guess_mime_type(path),
                            IF Throws(read) THEN "" ELSE read.bytes)]

\* One file part: the name, the path's filename, the guessed MIME type
\* and the bytes read; or the exception of read_file_bytes.
file_part(name, path) ==
    LET read == read_file_bytes(path) IN
    IF Throws(read) THEN read
    ELSE [kind |-> "return",
          file |-> MultipartFile(name, filename(path), guess_mime_type(path), read.bytes)]

\* A faulty variant of multipart_request: the Content-Type header declares
\* the token of a second random_boundary() call.
multipart_request_second_boundary(cfg, path, boundary, fields, files) ==
    ReturnReq(HttpRequest("POST", cfg.base_url \o path,
                          add_common_headers(cfg, << >>,
                             "multipart/form-data; boundary="
                             \o random_boundary([i \in 1..16 |-> 15])),
                          build_multipart_body(boundary, fields, files)))

multipart_request(cfg, path, boundary, fields, files) ==
    ReturnReq(HttpRequest("POST", cfg.base_url \o path,
                          add_common_headers(cfg, << >>,
                                             "multipart/form-data; boundary=" \o boundary),
                          build_multipart_body(boundary, fields, files)))

ImagesAPI_edit_request(cfg, r, draws) ==
    LET boundary == random_boundary(draws)
        f1 == << MultipartField("model", r.model) >>
        f2 == push_optionals(f1, r.opt, ImageEditOptionalKeys, 1)
        f3 == push_extra(f2, r.extra.o, keys_of(r.extra.o), 1)
        image == file_part("image", r.image_path)
    IN  IF Throws(image) THEN image
        ELSE IF r.mask_path.has
        THEN LET mask == file_part("mask", r.mask_path.v) IN
             IF Throws(mask) THEN mask
             ELSE multipart_request(cfg, "/images/edits", boundary, f3,
                                    << image.file, mask.file >>)
        ELSE multipart_request(cfg, "/images/edits", boundary, f3, << image.file >>)

TranscriptionsAPI_create_request(cfg, r, draws) ==
    LET boundary == random_boundary(draws)
        f1 == << MultipartField("model", r.model) >>
        f2 == push_optionals(f1, r.opt, TranscriptionOptionalKeys, 1)
        f3 == push_extra(f2, r.extra.o, keys_of(r.extra.o), 1)
        filePart == file_part("file", r.file_path)
    IN  IF Throws(filePart) THEN filePart
        ELSE multipart_request(cfg, "/audio/transcriptions", boundary, f3,
                               << filePart.file >>)

(***************************************************************************)
(* The inputs of the navigation calls.                                     *)
(***************************************************************************)
\* The longest "output" list handed to first_text_output.
MaxOutput == 3

\* The longest "output" list handed to the tool-call extractors.
MaxToolOutput == 2

Text(s) == JObj([type |-> JStr("output_text"), text |-> JStr(s)])

\* Content entries without a usable "text": none at all, or a number.
NoTextEntry  == JObj([type |-> JStr("refusal")])

NumTextEntry == JObj([type |-> JStr("output_text"), text |-> JNum(7)])

Message(content) == JObj([type |-> JStr("message"), content |-> content])

\* The "content" values of the message items.
Contents ==
    { JStr("hello"),
      JArr(<<>>),
      JArr(<<Text("hello")>>),
      JArr(<<Text("world")>>),
      JArr(<<Text("hello"), Text("world")>>),
      JArr(<<NoTextEntry, Text("hello")>>),
      JArr(<<NumTextEntry, Text("world")>>) }

\* Results of a tool call: well formed (a string, a list starting with a
\* string) and malformed (null, number, object, empty list, a list that
\* starts with a number).
Results ==
    { JStr("YWJj"),
      JArr(<<JStr("r1"), JStr("r2")>>),
      JNull,
      JNum(7),
      JObj([b64 |-> JStr("YWJj")]),
      JArr(<<>>),
      JArr(<<JNum(7), JStr("r1")>>) }

ToolNames == {"image_generation", "web_search"}

\* The tool_type arguments: two tool names and "tool", for which
\* tool_type + "_call" is the generic discriminant "tool_call".
ToolTypes == ToolNames \cup {"tool"}

Specialized(name, result) ==
    JObj([type |-> JStr(name \o "_call"), result |-> result])

Generic(name, result) ==
    JObj([type |-> JStr("tool_call"), tool_name |-> JStr(name), result |-> result])

\* Items the text extraction scans: messages with every content, and
\* items it has to skip (another type, no type, a type that is no string,
\* an item that is no object).
TextItems ==
    { Message(c) : c \in Contents }
    \cup { JObj([type |-> JStr("message")]),
           JObj([type |-> JStr("reasoning")]),
           JObj([content |-> JArr(<<Text("world")>>)]),
           JObj([type |-> JNum(7), content |-> JArr(<<Text("world")>>)]),
           JStr("message"),
           Specialized("image_generation", JStr("YWJj")) }

\* Items the tool-call extraction scans: specialized and generic calls,
\* with and without a result or a tool name, and items it has to skip.
ToolItems ==
    { Specialized("image_generation", r) : r \in Results }
    \cup { Generic(n, r) : n \in ToolNames,
                           r \in {JStr("ZGVm"), JArr(<<JStr("r1"), JStr("r2")>>)} }
    \cup { JObj([type |-> JStr("image_generation_call")]),
           JObj([type |-> JStr("tool_call"), tool_name |-> JStr("image_generation")]),
           JObj([type |-> JStr("tool_call"), result |-> JStr("YWJj")]),
           JObj([type |-> JStr("tool_call"), tool_name |-> JNum(7), result |-> JStr("YWJj")]),
           Specialized("web_search", JStr("r3")),
           Message(JArr(<<Text("hello")>>)),
           JObj([result |-> JStr("YWJj")]),
           JObj([type |-> JNum(7), result |-> JStr("YWJj")]),
           JStr("image_generation_call") }

Lists(items, n) == UNION { [1..k -> items] : k \in 0..n }

\* Top-level "error" values that are not null.
Errors ==
    { JObj([type |-> JStr("invalid_request_error"), message |-> JStr("bad model")]),
      JObj([type |-> JStr("invalid_request_error")]),
      JObj([message |-> JStr("bad model")]),
      JObj([type |-> JNum(7), message |-> JNum(7)]),
      JObj([code |-> JStr("E1")]),
      JStr("bad model") }

\* "output" values that are no list.
NonListOutputs == { JNull, JStr("hello"), JObj([type |-> JStr("message")]) }

\* The responses over a set of output lists: without "error", with a null
\* "error", and with every non-null error over the short outputs; without
\* "output" and with an "output" that is no list; and two responses that
\* are no object.
Responses(items, n) ==
    LET outputs == { JArr(l) : l \in Lists(items, n) } \cup NonListOutputs
        short   == { JArr(l) : l \in Lists(items, 1) } \cup NonListOutputs
    IN  { JObj([output |-> o]) : o \in outputs }
        \cup { JObj([error |-> JNull, output |-> o]) : o \in outputs }
        \cup { JObj([error |-> e, output |-> o]) : e \in Errors, o \in short }
        \cup { JObj([error |-> e]) : e \in Errors \cup {JNull} }
        \cup { JObj(<<>>), JNull, JArr(<<>>) }

TextResponses == Responses(TextItems, MaxOutput)

ToolResponses == Responses(ToolItems, MaxToolOutput)

(***************************************************************************)
(* The inputs of the request builders.                                     *)
(***************************************************************************)
\* The most optional members a caller changes in a fresh request struct.
MaxSet == 2

\* The number of hex digits random_boundary appends.
BoundaryDigits == 16

\* The value a caller gives an optional member, by key.
SampleValue(k) ==
    CASE k = "instructions"         -> JStr("be brief")
      [] k = "metadata"             -> JObj([user |-> JStr("u1")])
      [] k = "temperature"          -> JFloat(7)
      [] k = "top_p"                -> JFloat(9)
      [] k = "max_output_tokens"    -> JNum(64)
      [] k = "previous_response_id" -> JStr("resp_1")
      [] k = "reasoning"            -> JObj([type |-> JStr("auto")])
      [] k = "text"                 -> JObj([format |-> JStr("text")])
      [] k = "tools"                -> JArr(<<JObj([type |-> JStr("image_generation")])>>)
      [] k = "tool_choice"          -> JStr("auto")
      [] k = "truncation"           -> JStr("auto")
      [] k = "include"              -> JArr(<<JStr("output")>>)
      [] k = "parallel_tool_calls"  -> JBool(TRUE)
      [] k = "stream"               -> JBool(FALSE)
      [] k = "audio"                -> JObj([voice |-> JStr("alloy")])
      [] k = "store"                -> JBool(FALSE)
      [] k = "user"                 -> JStr("u1")
      [] k = "service_tier"         -> JStr("flex")
      [] k = "n"                    -> JNum(2)
      [] k = "size"                 -> JStr("1024x1024")
      [] k = "quality"              -> JStr("hd")
      [] k = "style"                -> JStr("vivid")
      [] k = "response_format"      -> JStr("b64_json")
      [] k = "output_format"        -> JStr("png")
      [] k = "prompt"               -> JStr("make it blue")
      [] k = "format"               -> JStr("mp3")
      [] k = "language"             -> JStr("en")
      [] k = "aspect_ratio"         -> JStr("16:9")
      [] k = "duration"             -> JNum(8)
      [] k = "seed"                 -> JNum(42)

\* The subsets of S with at most n elements.
RECURSIVE Small(_, _)
Small(S, n) ==
    IF n = 0 THEN {{}}
    ELSE LET p == Small(S, n - 1) IN p \cup { x \cup {k} : x \in p, k \in S }

\* The optional members after the caller changed at most MaxSet of them,
\* each either assigned its sample value or reset.
Opts(fresh) ==
    UNION { { [k \in DOMAIN fresh |->
                 IF k \in D THEN (IF f[k] THEN Some(SampleValue(k)) ELSE None)
                 ELSE fresh[k]] : f \in [D -> BOOLEAN] }
            : D \in Small(DOMAIN fresh, MaxSet) }

\* The value an extension map gives a key.
ExtraValue(k) ==
    CASE k = "model"       -> JStr("b")
      [] k = "prompt"      -> JStr("say \"hi\"")
      [] k = "input"       -> JStr("other")
      [] k = "temperature" -> JNum(0)
      [] k = "n"           -> JNum(3)
      [] k = "format"      -> JStr("wav")
      [] k = "language"    -> JStr("de")
      [] k = "seed"        -> JNum(1)
      [] k = "background"  -> JStr("transparent")

\* The extension maps over a set of keys: every subset, as a json object.
Extras(keys) == { JObj([k \in K |-> ExtraValue(k)]) : K \in SUBSET keys }

ResponsesRequests ==
    { [endpoint |-> "responses", model |-> "gpt-x", input |-> JStr("hello"),
       opt |-> o, extra |-> e]
      : o \in Opts(FreshResponsesOpt),
        e \in Extras({"model", "temperature", "background"}) }

ImagesGenerateRequests ==
    { [endpoint |-> "images_generate", model |-> "gpt-image-1", prompt |-> "a robot",
       opt |-> o, extra |-> e]
      : o \in Opts(FreshOpt(ImagesGenerateOptionalKeys)),
        e \in Extras({"prompt", "n", "background"}) }

ImageEditRequests ==
    { [endpoint |-> "images_edit", model |-> "gpt-image-1", image_path |-> p,
       mask_path |-> m, opt |-> o, extra |-> e]
      : p \in {"cat.png", "gone.png"},
        m \in {None, Some("art/mask.PNG")},
        o \in Opts(FreshOpt(ImageEditOptionalKeys)),
        e \in Extras({"model", "prompt", "background"}) }

ModerationRequests ==
    { [endpoint |-> "moderations", model |-> "omni-moderation-latest", input |-> i,
       opt |-> << >>, extra |-> e]
      : i \in {JStr("hello"), JArr(<<JStr("a"), JStr("b")>>)},
        e \in Extras({"model", "input", "background"}) }

AudioSpeechRequests ==
    { [endpoint |-> "speech", model |-> "gpt-4o-mini-tts", instructions |-> "calm",
       input |-> "hello", voice |-> "alloy", opt |-> o, extra |-> e]
      : o \in Opts(FreshOpt(SpeechOptionalKeys)),
        e \in Extras({"model", "format", "background"}) }

AudioTranscriptionRequests ==
    { [endpoint |-> "transcriptions", model |-> "whisper-1", file_path |-> p,
       opt |-> o, extra |-> e]
      : p \in {"talk.mp3", "notes", "gone.wav"},
        o \in Opts(FreshOpt(TranscriptionOptionalKeys)),
        e \in Extras({"model", "language", "background"}) }

VideoCreateRequests ==
    { [endpoint |-> "videos", model |-> "sora-2", prompt |-> "a wave",
       opt |-> o, extra |-> e]
      : o \in Opts(FreshOpt(VideoOptionalKeys)),
        e \in Extras({"prompt", "seed", "background"}) }

\* Descriptors with a required member left as constructed (an empty string,
\* a null json) or emptied, the optional members as constructed.
IncompleteResponsesRequests ==
    { [endpoint |-> "responses", model |-> m, input |-> i,
       opt |-> FreshResponsesOpt, extra |-> JObj(<< >>)]
      : m \in {"", "gpt-x"}, i \in {JNull, JStr(""), JStr("hello")} }
    \ { [endpoint |-> "responses", model |-> "gpt-x", input |-> JStr("hello"),
         opt |-> FreshResponsesOpt, extra |-> JObj(<< >>)] }

IncompleteImagesGenerateRequests ==
    { [endpoint |-> "images_generate", model |-> m, prompt |-> p,
       opt |-> FreshOpt(ImagesGenerateOptionalKeys), extra |-> JObj(<< >>)]
      : m \in {"", "gpt-image-1"}, p \in {"", "a robot"} }
    \ { [endpoint |-> "images_generate", model |-> "gpt-image-1", prompt |-> "a robot",
         opt |-> FreshOpt(ImagesGenerateOptionalKeys), extra |-> JObj(<< >>)] }

IncompleteImageEditRequests ==
    { [endpoint |-> "images_edit", model |-> "", image_path |-> "cat.png",
       mask_path |-> None, opt |-> FreshOpt(ImageEditOptionalKeys),
       extra |-> JObj(<< >>)],
      [endpoint |-> "images_edit", model |-> "gpt-image-1", image_path |-> "",
       mask_path |-> None, opt |-> FreshOpt(ImageEditOptionalKeys),
       extra |-> JObj(<< >>)] }

IncompleteModerationRequests ==
    { [endpoint |-> "moderations", model |-> m, input |-> i,
       opt |-> << >>, extra |-> JObj(<< >>)]
      : m \in {"", "omni-moderation-latest"}, i \in {JNull, JStr(""), JStr("hello")} }
    \ { [endpoint |-> "moderations", model |-> "omni-moderation-latest",
         input |-> JStr("hello"), opt |-> << >>, extra |-> JObj(<< >>)] }

IncompleteAudioSpeechRequests ==
    { [endpoint |-> "speech", model |-> m, instructions |-> "calm",
       input |-> i, voice |-> v, opt |-> FreshOpt(SpeechOptionalKeys),
       extra |-> JObj(<< >>)]
      : m \in {"", "gpt-4o-mini-tts"}, i \in {"", "hello"}, v \in {"", "alloy"} }
    \ { [endpoint |-> "speech", model |-> "gpt-4o-mini-tts", instructions |-> "calm",
         input |-> "hello", voice |-> "alloy", opt |-> FreshOpt(SpeechOptionalKeys),
         extra |-> JObj(<< >>)] }

IncompleteAudioTranscriptionRequests ==
    { [endpoint |-> "transcriptions", model |-> "", file_path |-> "talk.mp3",
       opt |-> FreshOpt(TranscriptionOptionalKeys), extra |-> JObj(<< >>)],
      [endpoint |-> "transcriptions", model |-> "whisper-1", file_path |-> "",
       opt |-> FreshOpt(TranscriptionOptionalKeys), extra |-> JObj(<< >>)] }

IncompleteVideoCreateRequests ==
    { [endpoint |-> "videos", model |-> m, prompt |-> p,
       opt |-> FreshOpt(VideoOptionalKeys), extra |-> JObj(<< >>)]
      : m \in {"", "sora-2"}, p \in {"", "a wave"} }
    \ { [endpoint |-> "videos", model |-> "sora-2", prompt |-> "a wave",
         opt |-> FreshOpt(VideoOptionalKeys), extra |-> JObj(<< >>)] }

\* Descriptors whose content reads like a multipart delimiter: a prompt
\* and an audio file that hold the marker random_boundary yields when
\* every std::rand() & 0x0F is 0; and an audio file tellg() fails on.
DelimiterLikeImageEditRequests ==
    { [endpoint |-> "images_edit", model |-> "gpt-image-1", image_path |-> "cat.png",
       mask_path |-> m,
       opt |-> [FreshOpt(ImageEditOptionalKeys) EXCEPT !["prompt"] =
                  Some(JStr("frame it\r\n------openai_cpp_boundary_0000000000000000\r\n"))],
       extra |-> JObj(<< >>)]
      : m \in {None, Some("gone.png")} }

DelimiterLikeAudioTranscriptionRequests ==
    { [endpoint |-> "transcriptions", model |-> "whisper-1", file_path |-> p,
       opt |-> FreshOpt(TranscriptionOptionalKeys), extra |-> JObj(<< >>)]
      : p \in {"echo.wav", "fifo.wav"} }

\* The configurations a client is constructed with: the key is never
\* empty (the constructor refuses it), organization and project may be.
Configs ==
    { [api_key |-> "sk-test", base_url |-> "https://api.openai.com/v1",
       organization |-> org, project |-> prj]
      : org \in {"", "org_1"}, prj \in {"", "proj_1"} }

\* The values of the sixteen std::rand() & 0x0F of one random_boundary.
BoundaryDraws ==
    { [i \in 1..BoundaryDigits |-> 0],
      [i \in 1..BoundaryDigits |-> (7 * i) % 16] }

(***************************************************************************)
(* The calls, one at a time: each starts from the state in which no call   *)
(* was made.  Two calls that run at the same time are in SpecConc.         *)
(***************************************************************************)
NoClient == [kind |-> "none"]

NoDescriptor == [endpoint |-> "none"]

\* execute was not called: there is no HttpResponse.
NoReply == [status_code |-> 0, content_type |-> "", body |-> "", headers |-> << >>,
            kind |-> "none"]

NoArgs == [fn |-> "none"]

\* No thread was started; nothing was scheduled.
NoThreads == << >>

NoSchedule == [running |-> 0, switches |-> 0]

\* The state of std::rand() when the program starts: the library never
\* calls srand, so the sequence is the one of srand(1).  The 32-bit state
\* is kept as two 16-bit halves.
DefaultSeed == [hi |-> 0, lo |-> 1]

\* What the caller's string holds before a call that may write to it.
Untouched == "(caller's value)"

Idle ==
    /\ op = "none"
    /\ response = JNull
    /\ tool_type = ""
    /\ descriptor = NoDescriptor
    /\ outcome = NoCall
    /\ sent = << >>
    /\ reply = NoReply
    /\ args = NoArgs
    /\ mime_type_out = Untouched
    /\ rand_state = DefaultSeed
    /\ thread = NoThreads
    /\ sched = NoSchedule

\* The navigation functions are free functions: no client is needed.
InitNav == Idle /\ config = NoClient

FirstTextOutput ==
    /\ op = "none"
    /\ \E r \in TextResponses :
          /\ response' = r
          /\ outcome' = first_text_output(r)
    /\ op' = "first_text_output"
    /\ UNCHANGED <<tool_type, config, descriptor, sent, reply, args, mime_type_out, rand_state, thread, sched>>

FirstToolCallOutput ==
    /\ op = "none"
    /\ \E r \in ToolResponses, tt \in ToolTypes :
          /\ response' = r
          /\ tool_type' = tt
          /\ outcome' = first_tool_call_output(r, tt)
    /\ op' = "first_tool_call_output"
    /\ UNCHANGED <<config, descriptor, sent, reply, args, mime_type_out, rand_state, thread, sched>>

FirstImageOutput ==
    /\ op = "none"
    /\ \E r \in ToolResponses :
          /\ response' = r
          /\ outcome' = first_image_output(r)
    /\ op' = "first_image_output"
    /\ tool_type' = "image_generation"
    /\ UNCHANGED <<config, descriptor, sent, reply, args, mime_type_out, rand_state, thread, sched>>

FirstImageBase64Output ==
    /\ op = "none"
    /\ \E r \in ToolResponses :
          /\ response' = r
          /\ outcome' = first_image_base64_output(r)
    /\ op' = "first_image_base64_output"
    /\ UNCHANGED <<tool_type, config, descriptor, sent, reply, args, mime_type_out, rand_state, thread, sched>>

NavNext ==
    \/ FirstTextOutput
    \/ FirstToolCallOutput
    \/ FirstImageOutput
    \/ FirstImageBase64Output

SpecNav == InitNav /\ [][NavNext]_vars

\* A client was constructed with one of the configurations.
InitMap == Idle /\ config \in Configs

ResponsesCreateRequest ==
    /\ op = "none"
    /\ \E r \in (ResponsesRequests \cup IncompleteResponsesRequests) :
          /\ descriptor' = r
          /\ outcome' = ResponsesAPI_create_request(config, r)
    /\ op' = "ResponsesAPI::create_request"
    /\ UNCHANGED <<response, tool_type, config, sent, reply, args, mime_type_out, rand_state, thread, sched>>

ImagesGenerateRequest ==
    /\ op = "none"
    /\ \E r \in (ImagesGenerateRequests \cup IncompleteImagesGenerateRequests) :
          /\ descriptor' = r
          /\ outcome' = ImagesAPI_generate_request(config, r)
    /\ op' = "ImagesAPI::generate_request"
    /\ UNCHANGED <<response, tool_type, config, sent, reply, args, mime_type_out, rand_state, thread, sched>>

ImagesEditRequest ==
    /\ op = "none"
    /\ \E r \in (ImageEditRequests \cup IncompleteImageEditRequests
                    \cup DelimiterLikeImageEditRequests),
          draws \in BoundaryDraws :
          /\ descriptor' = r
          /\ outcome' = ImagesAPI_edit_request(config, r, draws)
    /\ op' = "ImagesAPI::edit_request"
    /\ UNCHANGED <<response, tool_type, config, sent, reply, args, mime_type_out, rand_state, thread, sched>>

ModerationsCreateRequest ==
    /\ op = "none"
    /\ \E r \in (ModerationRequests \cup IncompleteModerationRequests) :
          /\ descriptor' = r
          /\ outcome' = ModerationsAPI_create_request(config, r)
    /\ op' = "ModerationsAPI::create_request"
    /\ UNCHANGED <<response, tool_type, config, sent, reply, args, mime_type_out, rand_state, thread, sched>>

SpeechCreateRequest ==
    /\ op = "none"
    /\ \E r \in (AudioSpeechRequests \cup IncompleteAudioSpeechRequests) :
          /\ descriptor' = r
          /\ outcome' = SpeechAPI_create_request(config, r)
    /\ op' = "SpeechAPI::create_request"
    /\ UNCHANGED <<response, tool_type, config, sent, reply, args, mime_type_out, rand_state, thread, sched>>

TranscriptionsCreateRequest ==
    /\ op = "none"
    /\ \E r \in (AudioTranscriptionRequests \cup IncompleteAudioTranscriptionRequests
                    \cup DelimiterLikeAudioTranscriptionRequests), draws \in BoundaryDraws :
          /\ descriptor' = r
          /\ outcome' = TranscriptionsAPI_create_request(config, r, draws)
    /\ op' = "TranscriptionsAPI::create_request"
    /\ UNCHANGED <<response, tool_type, config, sent, reply, args, mime_type_out, rand_state, thread, sched>>

VideosCreateRequest ==
    /\ op = "none"
    /\ \E r \in (VideoCreateRequests \cup IncompleteVideoCreateRequests) :
          /\ descriptor' = r
          /\ outcome' = VideosAPI_create_request(config, r)
    /\ op' = "VideosAPI::create_request"
    /\ UNCHANGED <<response, tool_type, config, sent, reply, args, mime_type_out, rand_state, thread, sched>>

MapNext ==
    \/ ResponsesCreateRequest
    \/ ImagesGenerateRequest
    \/ ImagesEditRequest
    \/ ModerationsCreateRequest
    \/ SpeechCreateRequest
    \/ TranscriptionsCreateRequest
    \/ VideosCreateRequest

SpecMap == InitMap /\ [][MapNext]_vars

(***************************************************************************)
(* What the navigation contract says, stated on the response alone.        *)
(***************************************************************************)
ErrorPresent(r) ==
    /\ r.kind = "object"
    /\ "error" \in DOMAIN r.o
    /\ r.o["error"].kind # "null"

\* The string sub-field of the error object, or the default.
ErrorField(r, key, default) ==
    LET e == r.o["error"] IN
    IF e.kind = "object" /\ key \in DOMAIN e.o /\ e.o[key].kind = "string"
    THEN e.o[key].s ELSE default

RemoteError(r) ==
    Throw("OpenAI error (" \o ErrorField(r, "type", "error") \o "): "
          \o ErrorField(r, "message", "unknown error"))

HasOutputList(r) ==
    r.kind = "object" /\ "output" \in DOMAIN r.o /\ r.o["output"].kind = "array"

OutputOf(r) == r.o["output"].a

HasType(item, t) ==
    item.kind = "object" /\ "type" \in DOMAIN item.o /\ item.o["type"] = JStr(t)

\* The item is a tool call for tt, in the specialized or the generic form.
MatchesTool(item, tt) ==
    \/ HasType(item, tt \o "_call")
    \/ /\ HasType(item, "tool_call")
       /\ "tool_name" \in DOMAIN item.o
       /\ item.o["tool_name"] = JStr(tt)

MessageAt(r) == { i \in 1..Len(OutputOf(r)) : HasType(OutputOf(r)[i], "message") }

ToolCallAt(r, tt) == { i \in 1..Len(OutputOf(r)) : MatchesTool(OutputOf(r)[i], tt) }

HasContentList(item) ==
    /\ "content" \in DOMAIN item.o
    /\ item.o["content"].kind = "array"
    /\ Len(item.o["content"].a) > 0

HasText(entry) ==
    entry.kind = "object" /\ "text" \in DOMAIN entry.o /\ entry.o["text"].kind = "string"

\* The error kinds of the contract, as the exception texts that carry them.
NoMessageBlock ==
    { "first_text_output: response contains no output items",
      "first_text_output: no message block found in output" }

NoContent == { "first_text_output: message block contains no content[]" }

NoTextField == { "first_text_output: no text field found in content" }

NoToolCall ==
    { "first_tool_call_output: response has no output array",
      "first_tool_call_output: no tool call found for requested tool type",
      "first_image_generation_call: response has no output array",
      "first_image_generation_call: no image_generation_call found" }

MissingResult ==
    { "first_image_output: image_generation_call has no result field",
      "first_image_base64_output: image_generation_call has no result field" }

MalformedResult ==
    { "first_image_output: result is neither a string nor a non-empty array of strings",
      "first_image_base64_output: result is neither a string nor a non-empty array of strings" }

Fails(o, whats) == Throws(o) /\ o.what \in whats

(***************************************************************************)
(* Claims about the response navigator, checked under SpecNav.             *)
(***************************************************************************)

\* C1 (as claimed): when the response carries a non-null "error" and an
\* "output" list with a matching tool-call item, first_tool_call_output
\* and first_image_output fail with the remote error and return nothing.
\* The code never reads "error" in these two functions.
C1_ToolErrorPrecedence ==
    ( /\ op \in {"first_tool_call_output", "first_image_output"}
      /\ ErrorPresent(response)
      /\ HasOutputList(response)
      /\ ToolCallAt(response, tool_type) # {} )
    => outcome = RemoteError(response)

\* C2: when "error" is present and not null, first_text_output throws the
\* remote error, whatever "output" holds; the text carries the error's
\* string "type" and "message", "error" and "unknown error" standing in
\* for a sub-field that is missing or is no string.
C2_TextErrorPrecedence ==
    (op = "first_text_output" /\ ErrorPresent(response))
    => outcome = RemoteError(response)

\* C2 witness: an error without a string "type", beside an output whose
\* message item has text; the call threw with the default type.
C2_Witness ==
    /\ op = "first_text_output"
    /\ ErrorPresent(response)
    /\ ErrorField(response, "type", "error") = "error"
    /\ ErrorField(response, "message", "unknown error") = "bad model"
    /\ HasOutputList(response)
    /\ MessageAt(response) # {}
    /\ outcome = Throw("OpenAI error (error): bad model")

\* C3: without an error, first_text_output returns the text of the first
\* content entry of the first "message" item of the list: whenever that
\* entry has a string text the call returns it, and the call returns
\* nothing else.
C3_FirstMessageWins ==
    (op = "first_text_output" /\ ~ErrorPresent(response) /\ HasOutputList(response))
    => LET at_ == MessageAt(response)
           good == /\ at_ # {}
                   /\ HasContentList(OutputOf(response)[Min(at_)])
                   /\ HasText(OutputOf(response)[Min(at_)].o["content"].a[1])
       IN  IF good
           THEN outcome =
                  ReturnStr(OutputOf(response)[Min(at_)].o["content"].a[1].o["text"].s)
           ELSE Throws(outcome)

\* C3 witness: reasoning, message(hello), message(world) yields "hello".
C3_Witness ==
    /\ op = "first_text_output"
    /\ response = JObj([output |-> JArr(<<JObj([type |-> JStr("reasoning")]),
                                          Message(JArr(<<Text("hello")>>)),
                                          Message(JArr(<<Text("world")>>))>>)])
    /\ outcome = ReturnStr("hello")

\* C4: no fallback.  If the first message item has no content list, or an
\* empty one, the call fails with NoContent; if the first content entry
\* has no string text it fails with NoTextField; later message items and
\* later content entries are not consulted.
C4_NoFallback ==
    ( /\ op = "first_text_output"
      /\ ~ErrorPresent(response)
      /\ HasOutputList(response)
      /\ MessageAt(response) # {} )
    => LET first == OutputOf(response)[Min(MessageAt(response))] IN
       /\ ~HasContentList(first) => Fails(outcome, NoContent)
       /\ (HasContentList(first) /\ ~HasText(first.o["content"].a[1]))
             => Fails(outcome, NoTextField)

\* C4 witness: the first message has an entry without text followed by an
\* entry with text, a later message has text too, and the call failed.
C4_Witness ==
    /\ op = "first_text_output"
    /\ response = JObj([output |-> JArr(<<Message(JArr(<<NoTextEntry, Text("hello")>>)),
                                          Message(JArr(<<Text("world")>>))>>)])
    /\ Fails(outcome, NoTextField)

\* C5: first_tool_call_output returns the first item of the list that has
\* type tool_type + "_call", or type "tool_call" and a string tool_name
\* equal to tool_type; it fails with NoToolCall exactly when no item does.
C5_FirstToolCall ==
    (op = "first_tool_call_output" /\ HasOutputList(response))
    => IF ToolCallAt(response, tool_type) = {}
       THEN Fails(outcome, NoToolCall)
       ELSE outcome = ReturnRef(Min(ToolCallAt(response, tool_type)))

\* C5 witness: a call for another tool is skipped and the generic call
\* for the requested tool, second in the list, is returned.
C5_Witness ==
    /\ op = "first_tool_call_output"
    /\ tool_type = "web_search"
    /\ HasOutputList(response)
    /\ Len(OutputOf(response)) = 2
    /\ HasType(OutputOf(response)[1], "image_generation_call")
    /\ HasType(OutputOf(response)[2], "tool_call")
    /\ outcome = ReturnRef(2)

\* The result extraction both image extractors apply to the matched item.
ExpectedOfResult(item) ==
    IF "result" \notin DOMAIN item.o THEN "missing"
    ELSE LET r == item.o["result"] IN
         IF r.kind = "string" THEN "value"
         ELSE IF r.kind = "array" /\ Len(r.a) > 0 /\ r.a[1].kind = "string"
              THEN "first" ELSE "malformed"

ResultDecides(item) ==
    CASE ExpectedOfResult(item) = "missing"   -> Fails(outcome, MissingResult)
      [] ExpectedOfResult(item) = "value"     -> outcome = ReturnStr(item.o["result"].s)
      [] ExpectedOfResult(item) = "first"     -> outcome = ReturnStr(item.o["result"].a[1].s)
      [] ExpectedOfResult(item) = "malformed" -> Fails(outcome, MalformedResult)

\* C6: on the first matching item, a string result is returned, a list
\* that starts with a string gives that string, an absent result fails
\* with MissingResult and every other result with MalformedResult; a
\* later matching item is never used.
C6_ImageResult ==
    /\ ( /\ op = "first_image_output"
         /\ HasOutputList(response)
         /\ ToolCallAt(response, "image_generation") # {} )
       => ResultDecides(OutputOf(response)[Min(ToolCallAt(response, "image_generation"))])
    /\ ( /\ op = "first_image_base64_output"
         /\ HasOutputList(response)
         /\ \E i \in 1..Len(OutputOf(response)) :
               HasType(OutputOf(response)[i], "image_generation_call") )
       => ResultDecides(OutputOf(response)[
              Min({ i \in 1..Len(OutputOf(response)) :
                      HasType(OutputOf(response)[i], "image_generation_call") })])

\* C6 witness: the first matching item has a list result that starts with
\* a number, a later matching item has a string result, the call failed.
C6_Witness ==
    /\ op = "first_image_output"
    /\ response = JObj([output |->
          JArr(<<Specialized("image_generation", JArr(<<JNum(7), JStr("r1")>>)),
                 Specialized("image_generation", JStr("YWJj"))>>)])
    /\ Fails(outcome, MalformedResult)

\* The output is one generic item for tool name with a list of strings.
SingleGeneric(r, name) ==
    /\ HasOutputList(r)
    /\ OutputOf(r) = <<Generic(name, JArr(<<JStr("r1"), JStr("r2")>>))>>

\* C7 (as claimed): for an output that is a single generic item {type
\* "tool_call", tool_name T, result [s1, s2]} the result extraction
\* yields s1 for every tool type T.  The only result extraction the code
\* has, first_image_output, looks for "image_generation" alone.
C7_ResultForEveryTool ==
    (op = "first_image_output" /\ \E n \in ToolNames : SingleGeneric(response, n))
    => outcome = ReturnStr("r1")

\* C7 (amended): for such an output first_tool_call_output called with
\* tool_type = T returns that item, for every T; the payload s1 is
\* yielded by first_image_output when T is "image_generation", and for
\* every other T first_image_output fails with NoToolCall.
C7_ResultForImageTool ==
    \A n \in ToolNames :
       SingleGeneric(response, n) =>
          /\ (op = "first_tool_call_output" /\ tool_type = n) => outcome = ReturnRef(1)
          /\ op = "first_image_output" =>
                IF n = "image_generation"
                THEN outcome = ReturnStr("r1")
                ELSE Fails(outcome, NoToolCall)

\* C7 witness: the generic web_search item was asked for by its tool type
\* and returned.
C7_Witness ==
    /\ op = "first_tool_call_output"
    /\ tool_type = "web_search"
    /\ SingleGeneric(response, "web_search")
    /\ outcome = ReturnRef(1)

\* The response has no error and no item to scan: "output" is absent, is
\* no list, or is the empty list.
MissingShape(r) ==
    /\ ~ErrorPresent(r)
    /\ HasOutputList(r) => OutputOf(r) = <<>>

\* C8: on a response of missing shape first_text_output fails with
\* NoMessageBlock and first_tool_call_output and first_image_output fail
\* with NoToolCall; none returns a value.
C8_MissingShape ==
    MissingShape(response) =>
       /\ op = "first_text_output" => Fails(outcome, NoMessageBlock)
       /\ op \in {"first_tool_call_output", "first_image_output"}
             => Fails(outcome, NoToolCall)

\* C8 witness: first_image_output was called on an empty output list.
C8_Witness ==
    /\ op = "first_image_output"
    /\ response = JObj([output |-> JArr(<<>>)])
    /\ Throws(outcome)

(***************************************************************************)
(* Claims about the request mapper, checked under SpecMap.                 *)
(***************************************************************************)
JsonBuilders ==
    { "ResponsesAPI::create_request", "ImagesAPI::generate_request",
      "ModerationsAPI::create_request", "SpeechAPI::create_request",
      "VideosAPI::create_request" }

MultipartBuilders ==
    { "ImagesAPI::edit_request", "TranscriptionsAPI::create_request" }

\* The required members of a descriptor of a JSON-bodied endpoint, under
\* their wire keys.
RequiredFields(d) ==
    CASE d.endpoint = "responses" ->
            [model |-> JStr(d.model), input |-> d.input]
      [] d.endpoint = "images_generate" ->
            [model |-> JStr(d.model), prompt |-> JStr(d.prompt)]
      [] d.endpoint = "moderations" ->
            [model |-> JStr(d.model), input |-> d.input]
      [] d.endpoint = "speech" ->
            [model |-> JStr(d.model), instructions |-> JStr(d.instructions),
             input |-> JStr(d.input), voice |-> JStr(d.voice)]
      [] d.endpoint = "videos" ->
            [model |-> JStr(d.model), prompt |-> JStr(d.prompt)]

PresentOptionals(d) == { k \in DOMAIN d.opt : d.opt[k].has }

\* The key-value document of a descriptor: every extension entry, and
\* every typed field whose key the extension map does not hold.
OverlaidDocument(d) ==
    LET req == RequiredFields(d)
        ext == d.extra.o
    IN  [k \in DOMAIN req \cup PresentOptionals(d) \cup DOMAIN ext |->
            IF k \in DOMAIN ext THEN ext[k]
            ELSE IF k \in DOMAIN req THEN req[k]
            ELSE d.opt[k].v]

\* C9: on the JSON-bodied endpoints the request is built and its body is
\* the serialization of the document in which every extension key holds
\* the extension's value, also where it names a required or a present
\* optional typed field, and every other typed key holds its typed value.
C9_ExtensionOverridesJson ==
    op \in JsonBuilders =>
       /\ Returns(outcome)
       /\ outcome.req.body = dump(JObj(OverlaidDocument(descriptor)))

\* C9 witness: typed model "gpt-x" and temperature 1.0, extension
\* {"model": "b", "temperature": 0}: the body holds the extension's values.
C9_Witness ==
    /\ op = "ResponsesAPI::create_request"
    /\ descriptor.model = "gpt-x"
    /\ descriptor.opt["temperature"] = Some(JFloat(10))
    /\ descriptor.opt["top_p"] = Some(JFloat(10))
    /\ PresentOptionals(descriptor) = {"temperature", "top_p"}
    /\ descriptor.extra = JObj([model |-> JStr("b"), temperature |-> JNum(0)])
    /\ Returns(outcome)
    /\ outcome.req.body =
          "{\"input\":\"hello\",\"model\":\"b\",\"temperature\":0,\"top_p\":1.0}"

\* The number of occurrences of needle in s, from position from on.
Occurrences(s, needle, from) == Cardinality(positions(s, needle, from))

\* The header of the text part of a name, up to the part's value.
TextPartHeader(name) ==
    "Content-Disposition: form-data; name=\"" \o name \o "\"\r\n\r\n"

\* The body holds a text part of that name with that value.
HasTextPart(body, name, value) ==
    find_from(body, TextPartHeader(name) \o value \o "\r\n--", 1) # 0

\* C10 (as claimed): in a multipart request every extension key has
\* exactly one text part, holding the extension's value (a string as its
\* characters or in its JSON form), also when the key is a typed field's.
\* The code appends the extension's part after the typed field's part.
C10_ExtensionOverridesMultipart ==
    (op \in MultipartBuilders /\ Returns(outcome)) =>
       \A k \in DOMAIN descriptor.extra.o :
          LET v == descriptor.extra.o[k] IN
          /\ Occurrences(outcome.req.body, TextPartHeader(k), 1) = 1
          /\ \/ HasTextPart(outcome.req.body, k, dump(v))
             \/ v.kind = "string" /\ HasTextPart(outcome.req.body, k, v.s)

(***************************************************************************)
(* The keys a wire body carries, read off the body alone.                  *)
(***************************************************************************)
\* The number of backslashes that end right before position i of s.
BackslashRun(s, i) ==
    IF i = 1 \/ SubSeq(s, i - 1, i - 1) # "\\" THEN 0
    ELSE Max({ k \in 1..(i - 1) : \A j \in 1..k : SubSeq(s, i - j, i - j) = "\\" })

\* The positions of the quotes that open or close a string of a JSON text:
\* the quotes that no odd run of backslashes escapes.
StringQuotes(s) ==
    { i \in 1..Len(s) : SubSeq(s, i, i) = "\"" /\ BackslashRun(s, i) % 2 = 0 }

\* The keys among candidates that the JSON object text s holds at its top
\* level: "key": opening outside every string, one bracket deep.
TopLevelKeys(s, candidates) ==
    LET Q          == StringQuotes(s)
        Outside(i) == Cardinality({ q \in Q : q < i }) % 2 = 0
        Opens      == { i \in 1..Len(s) : SubSeq(s, i, i) \in {"{", "["} /\ Outside(i) }
        Closes     == { i \in 1..Len(s) : SubSeq(s, i, i) \in {"}", "]"} /\ Outside(i) }
        Depth(i)   == Cardinality({ b \in Opens : b < i })
                      - Cardinality({ b \in Closes : b < i })
    IN  { k \in candidates :
            \E p \in positions(s, "\"" \o k \o "\":", 1) : Outside(p) /\ Depth(p) = 1 }

\* The names among candidates for which the multipart body s holds a part.
PartNames(s, candidates) ==
    { k \in candidates :
        positions(s, "Content-Disposition: form-data; name=\"" \o k \o "\"", 1) # {} }

\* The required wire fields of an endpoint and the optional typed members
\* of its descriptor, by wire key.
RequiredKeys(d) ==
    CASE d.endpoint = "images_edit"    -> {"model", "image"}
      [] d.endpoint = "transcriptions" -> {"model", "file"}
      [] OTHER                         -> DOMAIN RequiredFields(d)

OptionalKeys(d) ==
    DOMAIN d.opt \cup (IF d.endpoint = "images_edit" THEN {"mask"} ELSE {})

OptionalPresent(d, k) ==
    IF k = "mask" THEN d.mask_path.has ELSE d.opt[k].has

\* The keys of the wire body of the request built last.
WireKeys ==
    LET candidates == RequiredKeys(descriptor) \cup OptionalKeys(descriptor)
                      \cup DOMAIN descriptor.extra.o
    IN  IF op \in JsonBuilders THEN TopLevelKeys(outcome.req.body, candidates)
        ELSE PartNames(outcome.req.body, candidates)

Built == op \in JsonBuilders \cup MultipartBuilders /\ Returns(outcome)

\* C11 (as claimed): every built wire body holds every required field of
\* its endpoint, and holds the key of an optional typed field if and only
\* if that field has a value in the descriptor.  An extension entry under
\* the key of a disengaged optional member puts the key in the body too.
C11_OptionalIffPresent ==
    Built =>
       LET W == WireKeys IN
       /\ RequiredKeys(descriptor) \subseteq W
       /\ \A k \in OptionalKeys(descriptor) :
             k \in W <=> OptionalPresent(descriptor, k)

\* C11 (amended): every built wire body holds every required field of its
\* endpoint, and holds the key of an optional typed field if and only if
\* that field has a value in the descriptor or the extension map holds an
\* entry under that key.
C11_OptionalIffPresentOrExtension ==
    Built =>
       LET W == WireKeys IN
       /\ RequiredKeys(descriptor) \subseteq W
       /\ \A k \in OptionalKeys(descriptor) :
             k \in W <=> (OptionalPresent(descriptor, k)
                          \/ k \in DOMAIN descriptor.extra.o)

\* C11 witness: an image request with size set, quality and n not set and
\* an extension entry "n": the body holds model, prompt, size and n only.
C11_Witness ==
    /\ op = "ImagesAPI::generate_request"
    /\ PresentOptionals(descriptor) = {"size"}
    /\ DOMAIN descriptor.extra.o = {"n"}
    /\ Returns(outcome)
    /\ WireKeys = {"model", "prompt", "size", "n"}

\* A required member of the descriptor is missing or empty: an empty
\* string, a null or empty-string json input, an empty file path.
EmptyInput(j) == j = JNull \/ j = JStr("")

MissingRequired(d) ==
    \/ d.model = ""
    \/ d.endpoint \in {"responses", "moderations"} /\ EmptyInput(d.input)
    \/ d.endpoint \in {"images_generate", "videos"} /\ d.prompt = ""
    \/ d.endpoint = "speech" /\ (d.input = "" \/ d.voice = "")
    \/ d.endpoint = "images_edit" /\ d.image_path = ""
    \/ d.endpoint = "transcriptions" /\ d.file_path = ""

\* C12 (as claimed): building a request from a descriptor with a missing
\* or empty required field fails and yields no wire request.  No builder
\* tests a required member: the request is built with the empty value.
C12_RequiredFieldValidation ==
    (op \in JsonBuilders \cup MultipartBuilders /\ MissingRequired(descriptor))
       => Throws(outcome)

(***************************************************************************)
(* The endpoint calls (apis.hpp): build the request, hand it to            *)
(* OpenAIClient::execute, test the status code, convert the body.          *)
(***************************************************************************)
\* Division of two long values, the quotient truncated toward zero.
div_long(a, b) ==
    IF a >= 0 THEN a \div b ELSE -((-a) \div b)

\* What execute does with a request: libcurl fails and it throws, or it
\* returns an HttpResponse.
CurlError(what) == [kind |-> "curl_error", what |-> what]

HttpResponse(status_code, body) ==
    [kind |-> "response", status_code |-> status_code, content_type |-> "",
     body |-> body, headers |-> << >>]

ReturnJson(j) == [kind |-> "return", json |-> j]

ReturnBytes(b) == [kind |-> "return", bytes |-> b]

\* The documents the response bodies of this model are the texts of.
ReplyDocuments ==
    { JObj([output |-> JArr(<< >>)]),
      JObj([error |-> JObj([message |-> JStr("bad model")])]),
      JObj([text |-> JStr("hello")]) }

\* json::parse on a response body: the document the text is the dump of,
\* or the parse_error exception for a text that is no JSON text.  The
\* bodies of this model are dumps of ReplyDocuments or no JSON text at all.
json_parse(text) ==
    IF \E j \in ReplyDocuments : dump(j) = text
    THEN ReturnJson(CHOOSE j \in ReplyDocuments : dump(j) = text)
    ELSE Throw("[json.exception.parse_error.101] parse error")

\* The result of a call: what it returns or throws, and the requests it
\* handed to execute.
CallResult(o, requests, res) == [outcome |-> o, sent |-> requests, reply |-> res]

\* A faulty variant of execute_and_check: only the codes from 400 on fail.
execute_and_check_from_400(built, transport, prefix, convert) ==
    IF Throws(built) THEN CallResult(built, << >>, NoReply)
    ELSE IF transport.kind = "curl_error"
    THEN CallResult(Throw("curl error: " \o transport.what), << built.req >>, NoReply)
    ELSE IF transport.status_code >= 400
    THEN CallResult(Throw(prefix \o transport.body), << built.req >>, transport)
    ELSE CallResult(CASE convert = "json"   -> json_parse(transport.body)
                      [] convert = "bytes"  -> ReturnBytes(transport.body)
                      [] convert = "string" -> ReturnStr(transport.body),
                    << built.req >>, transport)

\* A faulty variant of execute_and_check: a request answered with a status
\* outside 200..299 is handed to execute a second time before the call
\* fails.
execute_and_check_retry(built, transport, prefix, convert) ==
    IF Throws(built) THEN CallResult(built, << >>, NoReply)
    ELSE IF transport.kind = "curl_error"
    THEN CallResult(Throw("curl error: " \o transport.what), << built.req >>, NoReply)
    ELSE IF div_long(transport.status_code, 100) # 2
    THEN CallResult(Throw(prefix \o transport.body), << built.req, built.req >>, transport)
    ELSE CallResult(CASE convert = "json"   -> json_parse(transport.body)
                      [] convert = "bytes"  -> ReturnBytes(transport.body)
                      [] convert = "string" -> ReturnStr(transport.body),
                    << built.req >>, transport)

\* auto req = ..._request(r); auto res = client_.execute(req);
\* if (res.status_code / 100 != 2) throw std::runtime_error(prefix + res.body);
\* then the conversion named by convert ("json", "bytes" or "string").
execute_and_check(built, transport, prefix, convert) ==
    IF Throws(built) THEN CallResult(built, << >>, NoReply)
    ELSE IF transport.kind = "curl_error"
    THEN CallResult(Throw("curl error: " \o transport.what), << built.req >>, NoReply)
    ELSE IF div_long(transport.status_code, 100) # 2
    THEN CallResult(Throw(prefix \o transport.body), << built.req >>, transport)
    ELSE CallResult(CASE convert = "json"   -> json_parse(transport.body)
                      [] convert = "bytes"  -> ReturnBytes(transport.body)
                      [] convert = "string" -> ReturnStr(transport.body),
                    << built.req >>, transport)

ResponsesAPI_create(cfg, r, transport) ==
    execute_and_check(ResponsesAPI_create_request(cfg, r), transport,
                      "Responses API error: ", "json")

ImagesAPI_generate(cfg, r, transport) ==
    execute_and_check(ImagesAPI_generate_request(cfg, r), transport,
                      "Images API error: ", "json")

ImagesAPI_edit(cfg, r, draws, transport) ==
    execute_and_check(ImagesAPI_edit_request(cfg, r, draws), transport,
                      "Images API error: ", "json")

ModerationsAPI_create(cfg, r, transport) ==
    execute_and_check(ModerationsAPI_create_request(cfg, r), transport,
                      "Moderations API error: ", "json")

SpeechAPI_create(cfg, r, transport) ==
    execute_and_check(SpeechAPI_create_request(cfg, r), transport,
                      "Audio Speech API error: ", "bytes")

TranscriptionsAPI_create(cfg, r, draws, transport) ==
    execute_and_check(TranscriptionsAPI_create_request(cfg, r, draws), transport,
                      "Audio Transcriptions API error: ", "string")

\* return json::parse(create(r));
TranscriptionsAPI_create_json(cfg, r, draws, transport) ==
    LET c == TranscriptionsAPI_create(cfg, r, draws, transport) IN
    IF Throws(c.outcome) THEN c
    ELSE CallResult(json_parse(c.outcome.str), c.sent, c.reply)

VideosAPI_create(cfg, r, transport) ==
    execute_and_check(VideosAPI_create_request(cfg, r), transport,
                      "Videos API error (create): ", "json")

(***************************************************************************)
(* The inputs of the endpoint calls and the calls.                         *)
(***************************************************************************)
\* The status codes execute reports: the ends of 200..299, their
\* neighbours, and codes far from the range.
StatusCodes == {0, 100, 199, 200, 201, 299, 300, 404, 500}

\* The response bodies: the texts of ReplyDocuments and texts that are no
\* JSON text.
ReplyBodies == { dump(j) : j \in ReplyDocuments } \cup {"", "upstream timeout"}

Transports ==
    { CurlError("Timeout was reached") }
    \cup { HttpResponse(st, b) : st \in StatusCodes, b \in ReplyBodies }

\* The optional members that hold a value.
Engaged(r) == { k \in DOMAIN r.opt : r.opt[k].has }

\* The descriptors handed to the calls: complete ones, without extension
\* entries and with the optional members as constructed.
CallResponsesRequests ==
    { r \in ResponsesRequests : r.opt = FreshResponsesOpt /\ r.extra = JObj(<< >>) }

CallImagesGenerateRequests ==
    { r \in ImagesGenerateRequests : Engaged(r) = {} /\ r.extra = JObj(<< >>) }

CallImageEditRequests ==
    { r \in ImageEditRequests \cup DelimiterLikeImageEditRequests :
         Engaged(r) \subseteq {"prompt"} /\ r.extra = JObj(<< >>) }

CallModerationRequests ==
    { r \in ModerationRequests : r.extra = JObj(<< >>) }

CallAudioSpeechRequests ==
    { r \in AudioSpeechRequests : Engaged(r) = {} /\ r.extra = JObj(<< >>) }

CallAudioTranscriptionRequests ==
    { r \in AudioTranscriptionRequests : Engaged(r) = {} /\ r.extra = JObj(<< >>) }

CallVideoCreateRequests ==
    { r \in VideoCreateRequests : Engaged(r) = {} /\ r.extra = JObj(<< >>) }

\* One call: the descriptor, what the call did, and what reached execute.
Called(name, r, result) ==
    /\ op' = name
    /\ descriptor' = r
    /\ outcome' = result.outcome
    /\ sent' = sent \o result.sent
    /\ reply' = result.reply
    /\ UNCHANGED <<response, tool_type, config, args, mime_type_out, rand_state, thread, sched>>

ResponsesCreate ==
    /\ op = "none"
    /\ \E r \in CallResponsesRequests, transport \in Transports :
          Called("ResponsesAPI::create", r, ResponsesAPI_create(config, r, transport))

ImagesGenerate ==
    /\ op = "none"
    /\ \E r \in CallImagesGenerateRequests, transport \in Transports :
          Called("ImagesAPI::generate", r, ImagesAPI_generate(config, r, transport))

ImagesEdit ==
    /\ op = "none"
    /\ \E r \in CallImageEditRequests, draws \in BoundaryDraws, transport \in Transports :
          Called("ImagesAPI::edit", r, ImagesAPI_edit(config, r, draws, transport))

ModerationsCreate ==
    /\ op = "none"
    /\ \E r \in CallModerationRequests, transport \in Transports :
          Called("ModerationsAPI::create", r, ModerationsAPI_create(config, r, transport))

SpeechCreate ==
    /\ op = "none"
    /\ \E r \in CallAudioSpeechRequests, transport \in Transports :
          Called("SpeechAPI::create", r, SpeechAPI_create(config, r, transport))

TranscriptionsCreate ==
    /\ op = "none"
    /\ \E r \in CallAudioTranscriptionRequests, draws \in BoundaryDraws, transport \in Transports :
          Called("TranscriptionsAPI::create", r, TranscriptionsAPI_create(config, r, draws, transport))

TranscriptionsCreateJson ==
    /\ op = "none"
    /\ \E r \in CallAudioTranscriptionRequests, draws \in BoundaryDraws, transport \in Transports :
          Called("TranscriptionsAPI::create_json", r, TranscriptionsAPI_create_json(config, r, draws, transport))

VideosCreate ==
    /\ op = "none"
    /\ \E r \in CallVideoCreateRequests, transport \in Transports :
          Called("VideosAPI::create", r, VideosAPI_create(config, r, transport))

CallNext ==
    \/ ResponsesCreate
    \/ ImagesGenerate
    \/ ImagesEdit
    \/ ModerationsCreate
    \/ SpeechCreate
    \/ TranscriptionsCreate
    \/ TranscriptionsCreateJson
    \/ VideosCreate

\* Everything a client does: the request builders and the calls.
ClientNext == MapNext \/ CallNext

SpecClient == InitMap /\ [][ClientNext]_vars

(***************************************************************************)
(* Claims about the calls, checked under SpecClient.                       *)
(***************************************************************************)
\* The builders and the calls that read a file the descriptor names.
FileCarrying ==
    { "ImagesAPI::edit_request", "ImagesAPI::edit",
      "TranscriptionsAPI::create_request", "TranscriptionsAPI::create",
      "TranscriptionsAPI::create_json" }

\* The files a descriptor names, in the order in which they are read.
ReferencedFiles(d) ==
    CASE d.endpoint = "images_edit" ->
            << d.image_path >> \o (IF d.mask_path.has THEN << d.mask_path.v >> ELSE << >>)
      [] d.endpoint = "transcriptions" -> << d.file_path >>
      [] OTHER -> << >>

CannotOpen(path) == path \notin DOMAIN Disk

\* FileAccessError for a path: the exception of the failed open.
FileAccessError(path) ==
    Throw("deitel::openai::util::read_file_bytes: unable to open " \o path)

\* C13: when a file the descriptor names (image, mask, audio) cannot be
\* opened, the builder or call fails with the file access error of the
\* first such file, so no request is returned, and nothing is handed to
\* the Transport.
C13_FileAccessFailure ==
    LET files == ReferencedFiles(descriptor)
        bad   == { i \in DOMAIN files : CannotOpen(files[i]) }
    IN  (op \in FileCarrying /\ bad # {}) =>
           /\ outcome = FileAccessError(files[Min(bad)])
           /\ sent = << >>
           /\ reply = NoReply

\* C13 witness: edit() with a readable image and a mask that is gone:
\* the call fails with the error of the mask and nothing was sent.
C13_Witness ==
    /\ op = "ImagesAPI::edit"
    /\ descriptor.image_path = "cat.png"
    /\ descriptor.mask_path = Some("gone.png")
    /\ outcome = FileAccessError("gone.png")
    /\ sent = << >>

(***************************************************************************)
(* Base64 and data: URLs (core.hpp, util).  Where bytes are encoded they   *)
(* are a sequence of values in 0..255.                                     *)
(***************************************************************************)
\* The alphabet of cppcodec::base64_rfc4648; its padding character is "=".
Base64Alphabet ==
    "ABCDEFGHIJKLMNOPQRSTUVWXYZabcdefghijklmnopqrstuvwxyz0123456789+/"

base64_symbol(v) == SubSeq(Base64Alphabet, v + 1, v + 1)

\* base64::encode: three bytes give four symbols; a last group of one or
\* two bytes is padded to four characters.
RECURSIVE base64_encode(_, _)
base64_encode(bytes, i) ==
    IF i > Len(bytes) THEN ""
    ELSE LET n  == Len(bytes) - i + 1
             b1 == bytes[i]
             b2 == IF n >= 2 THEN bytes[i + 1] ELSE 0
             b3 == IF n >= 3 THEN bytes[i + 2] ELSE 0
         IN  base64_symbol(b1 \div 4)
             \o base64_symbol((b1 % 4) * 16 + b2 \div 16)
             \o (IF n >= 2 THEN base64_symbol((b2 % 16) * 4 + b3 \div 64) ELSE "=")
             \o (IF n >= 3 THEN base64_symbol(b3 % 64) ELSE "=")
             \o base64_encode(bytes, i + 3)

\* A faulty variant of bytes_to_base64: the padding of the last group is
\* left out.
bytes_to_base64_unpadded(bytes) ==
    LET b64  == base64_encode(bytes, 1)
        pads == { i \in 1..Len(b64) : SubSeq(b64, i, i) = "=" }
    IN  SubSeq(b64, 1, Len(b64) - Cardinality(pads))

bytes_to_base64(bytes) == base64_encode(bytes, 1)

\* The value of a symbol, -1 for a character outside the alphabet.
base64_value(c) == find_from(Base64Alphabet, c, 1) - 1

\* base64::decode of well-formed text: four symbols give three bytes, a
\* padded last group one or two.
RECURSIVE base64_decode(_, _)
base64_decode(b64, i) ==
    IF i > Len(b64) THEN << >>
    ELSE LET c(k) == SubSeq(b64, i + k, i + k)
             v(k) == IF c(k) = "=" THEN 0 ELSE base64_value(c(k))
             x1   == v(0) * 4 + v(1) \div 16
             x2   == (v(1) % 16) * 16 + v(2) \div 4
             x3   == (v(2) % 4) * 64 + v(3)
         IN  (IF c(2) = "=" THEN << x1 >>
              ELSE IF c(3) = "=" THEN << x1, x2 >>
              ELSE << x1, x2, x3 >>)
             \o base64_decode(b64, i + 4)

\* util::base64_to_bytes: the decoder refuses a character outside the
\* alphabet (symbol_error) and a text that is not made of whole groups
\* with padding only at the end of the last one (padding_error).
base64_to_bytes(b64) ==
    LET n      == Len(b64)
        ch(i)  == SubSeq(b64, i, i)
        pads   == { i \in 1..n : ch(i) = "=" }
        symbol == { i \in 1..n : base64_value(ch(i)) >= 0 }
    IN  IF pads \cup symbol # 1..n
        THEN Throw("cppcodec::symbol_error")
        ELSE IF n % 4 # 0 \/ pads \notin {{}, {n}, {n - 1, n}}
        THEN Throw("cppcodec::padding_error")
        ELSE ReturnBytes(base64_decode(b64, 1))

\* data_url.rfind(prefix, 0) == 0: the string begins with the prefix.
starts_with(s, prefix) ==
    Len(s) >= Len(prefix) /\ SubSeq(s, 1, Len(prefix)) = prefix

bytes_to_data_url(bytes, mime_type) ==
    "data:" \o mime_type \o ";base64," \o bytes_to_base64(bytes)

ReturnPair(first, second) == [kind |-> "return", first |-> first, second |-> second]

\* A faulty variant of split_data_url: the MIME type is taken from the
\* start of the string instead of from behind the prefix.
split_data_url_keep_prefix(data_url) ==
    LET marker_pos == find_from(data_url, ";base64,", 1) IN
    IF ~starts_with(data_url, "data:")
    THEN Throw("deitel::openai::util::split_data_url: not a data URL (missing 'data:' prefix)")
    ELSE IF marker_pos = 0
    THEN Throw("deitel::openai::util::split_data_url: missing ';base64,' segment")
    ELSE ReturnPair(SubSeq(data_url, 1, marker_pos - 1),
                    SubSeq(data_url, marker_pos + 8, Len(data_url)))

\* A faulty variant of split_data_url: the string is split at the last
\* marker.
split_data_url_last_marker(data_url) ==
    LET at_ == positions(data_url, ";base64,", 1) IN
    IF ~starts_with(data_url, "data:")
    THEN Throw("deitel::openai::util::split_data_url: not a data URL (missing 'data:' prefix)")
    ELSE IF at_ = {}
    THEN Throw("deitel::openai::util::split_data_url: missing ';base64,' segment")
    ELSE ReturnPair(SubSeq(data_url, 6, Max(at_) - 1),
                    SubSeq(data_url, Max(at_) + 8, Len(data_url)))

\* A faulty variant of split_data_url: the payload is taken from one
\* character too early, the last one of the marker.
split_data_url_short_marker(data_url) ==
    LET marker_pos == find_from(data_url, ";base64,", 1) IN
    IF ~starts_with(data_url, "data:")
    THEN Throw("deitel::openai::util::split_data_url: not a data URL (missing 'data:' prefix)")
    ELSE IF marker_pos = 0
    THEN Throw("deitel::openai::util::split_data_url: missing ';base64,' segment")
    ELSE ReturnPair(SubSeq(data_url, 6, marker_pos - 1),
                    SubSeq(data_url, marker_pos + 7, Len(data_url)))

\* util::split_data_url.  Positions count from 1: the prefix "data:" takes
\* 1..5, marker_pos is std::string::find (0 for npos), the marker is 8 long.
split_data_url(data_url) ==
    LET marker_pos == find_from(data_url, ";base64,", 1) IN
    IF ~starts_with(data_url, "data:")
    THEN Throw("deitel::openai::util::split_data_url: not a data URL (missing 'data:' prefix)")
    ELSE IF marker_pos = 0
    THEN Throw("deitel::openai::util::split_data_url: missing ';base64,' segment")
    ELSE ReturnPair(SubSeq(data_url, 6, marker_pos - 1),
                    SubSeq(data_url, marker_pos + 8, Len(data_url)))

\* util::data_url_to_bytes: the outcome and what the caller's string holds
\* afterwards; has_out tells whether mime_type_out is a non-null pointer.
data_url_to_bytes(data_url, has_out, out_before) ==
    LET split == split_data_url(data_url) IN
    IF Throws(split) THEN [outcome |-> split, mime_type_out |-> out_before]
    ELSE [outcome |-> base64_to_bytes(split.second),
          mime_type_out |-> IF has_out THEN split.first ELSE out_before]

(***************************************************************************)
(* The inputs of the utility functions and the utility calls.              *)
(***************************************************************************)
\* The longest field list and file list handed to build_multipart_body.
MaxFields == 2

MaxFiles == 2

\* The longest byte sequence handed to bytes_to_data_url.
MaxBytes == 3

\* The sequences over S of length at most n.
SeqsUpTo(S, n) == UNION { [1..k -> S] : k \in 0..n }

Boundaries == { "B1", "----openai_cpp_boundary_0000000000000000" }

FieldPool ==
    { MultipartField("model", "gpt-x"),
      MultipartField("prompt", "two\r\nlines"),
      MultipartField("n", "") }

FilePool ==
    { MultipartFile("image", "a.png", "image/png", "PNG89"),
      MultipartFile("mask", "m.bin", "application/octet-stream", "") }

ByteValues == {0, 77, 255}

\* MIME strings, among them the empty one, one that ends like the start
\* of the marker and one that holds the marker.
MimeTypes ==
    { "", "image/png", "text/plain;charset=utf-8", "a;base64", "a;base64,b" }

\* Strings handed to split_data_url and data_url_to_bytes directly.
DataUrls ==
    { "", "data", "data:", "Data:image/png;base64,QQ==", "image/png;base64,QQ==",
      " data:image/png;base64,QQ==", "data:image/png,QQ==", "data:image/png;base64",
      "data:image/png;BASE64,QQ==", "data:;base64,", "data:image/png;base64,QQ==",
      "data:a;base64,b;base64,c", "data:image/png;base64,Q!==",
      "data:;base64,;base64,TWE=" }

\* Texts handed to base64_to_bytes directly.
Base64Texts ==
    { "", "TQ==", "TQD/", "TQ", "TQ=", "T=Q=", "TQ==TQ==", "T Q=", "TQD_", "====" }

\* Paths handed to guess_mime_type, in three pieces: a directory part, a
\* filename without its last extension, and that extension ("" for none).
PathDirs == { "", "art/", "dir.png/" }

PathStems == { "photo", "archive.tar", ".hidden" }

TableExtensions ==
    { ".png", ".jpg", ".jpeg", ".gif", ".webp", ".bmp", ".svg", ".mp4", ".mov",
      ".webm", ".mp3", ".wav", ".ogg", ".flac", ".m4a", ".pdf", ".json", ".txt",
      ".vtt" }

\* s in capital letters.
RECURSIVE toupper(_)
toupper(s) ==
    IF s = "" THEN ""
    ELSE LET i == find_from(LowerCase, Head(s), 1) IN
         (IF i = 0 THEN Head(s) ELSE SubSeq(UpperCase, i, i)) \o toupper(Tail(s))

\* s with its second character as a capital letter.
capitalized(s) == SubSeq(s, 1, 1) \o toupper(SubSeq(s, 2, 2)) \o SubSeq(s, 3, Len(s))

PathExtensions ==
    TableExtensions
    \cup { toupper(e) : e \in TableExtensions }
    \cup { capitalized(e) : e \in TableExtensions }
    \cup { "", ".", ".xyz", ".pngx", ".pn", ".jpe", ".PNG ", ".tar", ".m4" }

InitUtil == Idle /\ config = NoClient

BuildMultipartBody ==
    /\ op = "none"
    /\ \E boundary \in Boundaries, fields \in SeqsUpTo(FieldPool, MaxFields),
          files \in SeqsUpTo(FilePool, MaxFiles) :
          /\ args' = [fn |-> "build_multipart_body", boundary |-> boundary,
                      fields |-> fields, files |-> files]
          /\ outcome' = ReturnStr(build_multipart_body(boundary, fields, files))
    /\ op' = "build_multipart_body"
    /\ UNCHANGED <<response, tool_type, config, descriptor, sent, reply, mime_type_out, rand_state, thread, sched>>

BytesToDataUrl ==
    /\ op = "none"
    /\ \E bytes \in SeqsUpTo(ByteValues, MaxBytes), mime_type \in MimeTypes :
          /\ args' = [fn |-> "bytes_to_data_url", bytes |-> bytes,
                      mime_type |-> mime_type]
          /\ outcome' = ReturnStr(bytes_to_data_url(bytes, mime_type))
    /\ op' = "bytes_to_data_url"
    /\ UNCHANGED <<response, tool_type, config, descriptor, sent, reply, mime_type_out, rand_state, thread, sched>>

\* split_data_url on a string of the caller's, or on the string the
\* preceding bytes_to_data_url returned (args keeps what that one encoded).
SplitDataUrl ==
    /\ \/ /\ op = "none"
          /\ \E u \in DataUrls :
                /\ args' = [fn |-> "split_data_url", data_url |-> u]
                /\ outcome' = split_data_url(u)
       \/ /\ op = "bytes_to_data_url"
          /\ args' = [fn |-> "split_data_url", data_url |-> outcome.str,
                      bytes |-> args.bytes, mime_type |-> args.mime_type]
          /\ outcome' = split_data_url(outcome.str)
    /\ op' = "split_data_url"
    /\ UNCHANGED <<response, tool_type, config, descriptor, sent, reply, mime_type_out, rand_state, thread, sched>>

DataUrlToBytes ==
    /\ \E has_out \in BOOLEAN :
          \/ /\ op = "none"
             /\ \E u \in DataUrls :
                   LET r == data_url_to_bytes(u, has_out, mime_type_out) IN
                   /\ args' = [fn |-> "data_url_to_bytes", data_url |-> u,
                               has_out |-> has_out]
                   /\ outcome' = r.outcome
                   /\ mime_type_out' = r.mime_type_out
          \/ /\ op = "bytes_to_data_url"
             /\ LET r == data_url_to_bytes(outcome.str, has_out, mime_type_out) IN
                /\ args' = [fn |-> "data_url_to_bytes", data_url |-> outcome.str,
                            has_out |-> has_out, bytes |-> args.bytes,
                            mime_type |-> args.mime_type]
                /\ outcome' = r.outcome
                /\ mime_type_out' = r.mime_type_out
    /\ op' = "data_url_to_bytes"
    /\ UNCHANGED <<response, tool_type, config, descriptor, sent, reply, rand_state, thread, sched>>

BytesToBase64 ==
    /\ op = "none"
    /\ \E bytes \in SeqsUpTo(ByteValues, MaxBytes) :
          /\ args' = [fn |-> "bytes_to_base64", bytes |-> bytes]
          /\ outcome' = ReturnStr(bytes_to_base64(bytes))
    /\ op' = "bytes_to_base64"
    /\ UNCHANGED <<response, tool_type, config, descriptor, sent, reply, mime_type_out, rand_state, thread, sched>>

\* base64_to_bytes on a text of the caller's, or on the text the preceding
\* bytes_to_base64 returned (args keeps what that one encoded).
Base64ToBytes ==
    /\ \/ /\ op = "none"
          /\ \E b64 \in Base64Texts :
                /\ args' = [fn |-> "base64_to_bytes", b64 |-> b64]
                /\ outcome' = base64_to_bytes(b64)
       \/ /\ op = "bytes_to_base64"
          /\ args' = [fn |-> "base64_to_bytes", b64 |-> outcome.str,
                      bytes |-> args.bytes]
          /\ outcome' = base64_to_bytes(outcome.str)
    /\ op' = "base64_to_bytes"
    /\ UNCHANGED <<response, tool_type, config, descriptor, sent, reply, mime_type_out, rand_state, thread, sched>>

\* guess_mime_type on the path dir + stem + ext.
GuessMimeType ==
    /\ op = "none"
    /\ \E dir \in PathDirs, stem \in PathStems, ext \in PathExtensions :
          /\ args' = [fn |-> "guess_mime_type", path |-> dir \o stem \o ext,
                      dir |-> dir, stem |-> stem, ext |-> ext]
          /\ outcome' = ReturnStr(guess_mime_type(dir \o stem \o ext))
    /\ op' = "guess_mime_type"
    /\ UNCHANGED <<response, tool_type, config, descriptor, sent, reply, mime_type_out, rand_state, thread, sched>>

UtilNext ==
    \/ BuildMultipartBody
    \/ BytesToDataUrl
    \/ SplitDataUrl
    \/ DataUrlToBytes
    \/ BytesToBase64
    \/ Base64ToBytes
    \/ GuessMimeType

SpecUtil == InitUtil /\ [][UtilNext]_vars

(***************************************************************************)
(* Claims about the utility functions, checked under SpecUtil.             *)
(***************************************************************************)
CRLF == "\r\n"

\* The part of a text field and the part of a file, as the layout says.
FieldPart(boundary, f) ==
    "--" \o boundary \o CRLF
    \o "Content-Disposition: form-data; name=\"" \o f.name \o "\"" \o CRLF
    \o CRLF
    \o f.value \o CRLF

FilePart(boundary, f) ==
    "--" \o boundary \o CRLF
    \o "Content-Disposition: form-data; name=\"" \o f.name
    \o "\"; filename=\"" \o f.filename \o "\"" \o CRLF
    \o "Content-Type: " \o f.content_type \o CRLF
    \o CRLF
    \o f.data \o CRLF

ClosingMarker(boundary) == "--" \o boundary \o "--" \o CRLF

\* The strings of a sequence, one after the other.
RECURSIVE Concat(_)
Concat(parts) ==
    IF parts = << >> THEN "" ELSE Head(parts) \o Concat(Tail(parts))

\* C14: the body of build_multipart_body is one part per field in input
\* order, then one part per file in input order, then one closing marker;
\* with both lists empty it is the closing marker alone.
C14_MultipartLayout ==
    op = "build_multipart_body" =>
       LET b == args.boundary IN
       /\ outcome = ReturnStr(
             Concat([i \in 1..Len(args.fields) |-> FieldPart(b, args.fields[i])])
             \o Concat([i \in 1..Len(args.files) |-> FilePart(b, args.files[i])])
             \o ClosingMarker(b))
       /\ (args.fields = << >> /\ args.files = << >>)
             => outcome = ReturnStr(ClosingMarker(b))

\* C14 witness: boundary B1, the field model=gpt-x and the file image
\* a.png of type image/png: the body is the field part, the file part with
\* its bytes, and the closing marker.
C14_Witness ==
    /\ op = "build_multipart_body"
    /\ args.boundary = "B1"
    /\ args.fields = << MultipartField("model", "gpt-x") >>
    /\ args.files = << MultipartFile("image", "a.png", "image/png", "PNG89") >>
    /\ outcome = ReturnStr(
          "--B1\r\nContent-Disposition: form-data; name=\"model\"\r\n\r\ngpt-x\r\n"
          \o "--B1\r\nContent-Disposition: form-data; name=\"image\"; filename=\"a.png\"\r\n"
          \o "Content-Type: image/png\r\n\r\nPNG89\r\n"
          \o "--B1--\r\n")

(***************************************************************************)
(* Claims about the multipart requests and the headers, checked under      *)
(* SpecMap.                                                                *)
(***************************************************************************)
\* The values of the headers of a name, in the order of the header list.
HeaderValues(req, name) ==
    LET hs == SelectSeq(req.headers, LAMBDA h : h.name = name) IN
    [i \in 1..Len(hs) |-> hs[i].value]

\* The boundary token a multipart request declares: what follows
\* "boundary=" in its Content-Type header.
DeclaredBoundary(req) ==
    LET ct == HeaderValues(req, "Content-Type")[1]
        p  == find_from(ct, "boundary=", 1)
    IN  SubSeq(ct, p + 9, Len(ct))

\* The text field values the descriptor puts in a multipart body: the
\* model, the optional members that hold a value, the extension entries.
FieldValues(d) ==
    {d.model}
    \cup { field_text(d.opt[k].v) : k \in PresentOptionals(d) }
    \cup { dump(d.extra.o[k]) : k \in DOMAIN d.extra.o }

\* The payloads of the files the descriptor names.
FilePayloads(d) ==
    LET files == ReferencedFiles(d) IN { Disk[files[i]] : i \in DOMAIN files }

\* The number of parts of the body built from the descriptor.
PartCount(d) ==
    1 + Cardinality(PresentOptionals(d)) + Cardinality(DOMAIN d.extra.o)
    + Len(ReferencedFiles(d))

\* C15 (as claimed): in a built multipart request the boundary occurs in
\* no field value and in no file payload, and the delimiter "--boundary"
\* occurs only where a part starts and in the closing marker.  The
\* boundary is drawn without a look at the content.
C15_BoundaryNonCollision ==
    (op \in MultipartBuilders /\ Returns(outcome)) =>
       LET b == DeclaredBoundary(outcome.req) IN
       /\ \A v \in FieldValues(descriptor) \cup FilePayloads(descriptor) :
             find_from(v, b, 1) = 0
       /\ Occurrences(outcome.req.body, "--" \o b, 1) = PartCount(descriptor) + 1

\* The header of a name when the configured value is not empty, no such
\* header when it is.
OptionalHeader(req, name, configured) ==
    HeaderValues(req, name) = IF configured # "" THEN << configured >> ELSE << >>

\* C16: every built request carries Authorization "Bearer " + credential,
\* a User-Agent, the Content-Type of the encoding of its body
\* (application/json with a JSON object text, multipart/form-data with the
\* boundary token that opens the body), and OpenAI-Organization /
\* OpenAI-Project exactly when the configuration gives them a value.
C16_HeaderContract ==
    Built =>
       LET req == outcome.req IN
       /\ HeaderValues(req, "Authorization") = << "Bearer " \o config.api_key >>
       /\ Len(HeaderValues(req, "User-Agent")) = 1
       /\ HeaderValues(req, "User-Agent")[1] # ""
       /\ Len(HeaderValues(req, "Content-Type")) = 1
       /\ op \in JsonBuilders =>
             /\ HeaderValues(req, "Content-Type") = << "application/json" >>
             /\ starts_with(req.body, "{")
       /\ op \in MultipartBuilders =>
             /\ starts_with(HeaderValues(req, "Content-Type")[1],
                            "multipart/form-data; boundary=")
             /\ DeclaredBoundary(req) # ""
             /\ starts_with(req.body, "--" \o DeclaredBoundary(req) \o CRLF)
       /\ OptionalHeader(req, "OpenAI-Organization", config.organization)
       /\ OptionalHeader(req, "OpenAI-Project", config.project)

\* C16 witness: a client with an organization and no project builds a
\* transcription request: Authorization, the multipart Content-Type,
\* OpenAI-Organization and User-Agent, and no OpenAI-Project.
C16_Witness ==
    /\ op = "TranscriptionsAPI::create_request"
    /\ config.organization = "org_1"
    /\ config.project = ""
    /\ Returns(outcome)
    /\ outcome.req.headers =
          << HttpHeader("Authorization", "Bearer sk-test"),
             HttpHeader("Content-Type",
                        "multipart/form-data; boundary=----openai_cpp_boundary_7e5c3a18f6d4b290"),
             HttpHeader("OpenAI-Organization", "org_1"),
             HttpHeader("User-Agent", "openai-cpp-teaching-sdk/0.1") >>

\* s ends with suffix.
EndsWith(s, suffix) ==
    Len(s) >= Len(suffix) /\ SubSeq(s, Len(s) - Len(suffix) + 1, Len(s)) = suffix

\* C17: in a built multipart request the token the Content-Type header
\* declares is the token of the body: the body opens with "--token", every
\* one of its parts is opened by "--token" and the body closes with
\* "--token--".
C17_BoundaryAgreement ==
    (op \in MultipartBuilders /\ Returns(outcome)) =>
       LET b    == DeclaredBoundary(outcome.req)
           body == outcome.req.body
       IN  /\ HeaderValues(outcome.req, "Content-Type")
                 = << "multipart/form-data; boundary=" \o b >>
           /\ starts_with(body, "--" \o b \o CRLF)
           /\ Occurrences(body, "--" \o b \o CRLF \o "Content-Disposition: form-data; name=\"", 1)
                 = PartCount(descriptor)
           /\ Occurrences(body, "Content-Disposition: form-data; name=\"", 1)
                 = PartCount(descriptor)
           /\ EndsWith(body, CRLF \o ClosingMarker(b))

\* C17 witness: an image edit with a mask and a prompt: four parts, all
\* delimited by the token of the header.
C17_Witness ==
    /\ op = "ImagesAPI::edit_request"
    /\ descriptor.mask_path = Some("art/mask.PNG")
    /\ PresentOptionals(descriptor) = {"prompt"}
    /\ DOMAIN descriptor.extra.o = {}
    /\ Returns(outcome)
    /\ DeclaredBoundary(outcome.req) = "----openai_cpp_boundary_7e5c3a18f6d4b290"
    /\ Occurrences(outcome.req.body, "------openai_cpp_boundary_7e5c3a18f6d4b290", 1) = 5
    /\ EndsWith(outcome.req.body, "PNGff\r\n------openai_cpp_boundary_7e5c3a18f6d4b290--\r\n")

(***************************************************************************)
(* Status handling, checked under SpecClient.                              *)
(***************************************************************************)
\* The calls whose result is the parsed body, and all the calls.
JsonCalls ==
    { "ResponsesAPI::create", "ImagesAPI::generate", "ImagesAPI::edit",
      "ModerationsAPI::create", "TranscriptionsAPI::create_json",
      "VideosAPI::create" }

Calls == JsonCalls \cup { "SpeechAPI::create", "TranscriptionsAPI::create" }

\* The failure of a call for its status: the endpoint's exception, which
\* quotes the body as text.
StatusFailure(call, body) ==
    Throw((CASE call = "ResponsesAPI::create"   -> "Responses API error: "
             [] call = "ImagesAPI::generate"    -> "Images API error: "
             [] call = "ImagesAPI::edit"        -> "Images API error: "
             [] call = "ModerationsAPI::create" -> "Moderations API error: "
             [] call = "SpeechAPI::create"      -> "Audio Speech API error: "
             [] call = "TranscriptionsAPI::create" ->
                   "Audio Transcriptions API error: "
             [] call = "TranscriptionsAPI::create_json" ->
                   "Audio Transcriptions API error: "
             [] call = "VideosAPI::create"      -> "Videos API error (create): ")
          \o body)

\* C18: when the Transport answered a call with a status outside
\* 200..299, the call fails with its status exception: the body is neither
\* parsed nor returned.  With a status inside 200..299 the call does not
\* fail for its status: the raw body is returned by the speech and the
\* transcription call, and the other calls return the parsed body or fail
\* with the parser's exception.
C18_StatusHandling ==
    (op \in Calls /\ reply # NoReply) =>
       IF reply.status_code \notin 200..299
       THEN outcome = StatusFailure(op, reply.body)
       ELSE /\ outcome # StatusFailure(op, reply.body)
            /\ op = "SpeechAPI::create" => outcome = ReturnBytes(reply.body)
            /\ op = "TranscriptionsAPI::create" => outcome = ReturnStr(reply.body)
            /\ op \in JsonCalls =>
                  \/ /\ Returns(outcome)
                     /\ dump(outcome.json) = reply.body
                  \/ /\ Throws(outcome)
                     /\ \A j \in ReplyDocuments : dump(j) # reply.body

\* C18 witness: responses create answered 404 with a JSON body: the call
\* fails with the status exception, the body quoted and not parsed.
C18_Witness ==
    /\ op = "ResponsesAPI::create"
    /\ Len(sent) = 1
    /\ reply.status_code = 404
    /\ reply.body = "{\"error\":{\"message\":\"bad model\"}}"
    /\ outcome = Throw("Responses API error: {\"error\":{\"message\":\"bad model\"}}")

(***************************************************************************)
(* Data URLs, checked under SpecUtil.                                      *)
(***************************************************************************)
Marker == ";base64,"

\* The marker stands at position p of s.
MarkerAt(s, p) ==
    p + Len(Marker) - 1 <= Len(s) /\ SubSeq(s, p, p + Len(Marker) - 1) = Marker

HasMarker(s) == \E p \in 1..Len(s) : MarkerAt(s, p)

\* C19: for bytes b and a MIME string m that does not hold the marker,
\* split_data_url(bytes_to_data_url(b, m)) is the pair (m,
\* bytes_to_base64(b)), also for the empty b and the empty m.
C19_DataUrlRoundTrip ==
    (op = "split_data_url" /\ "bytes" \in DOMAIN args /\ ~HasMarker(args.mime_type)) =>
       /\ args.data_url = "data:" \o args.mime_type \o Marker \o bytes_to_base64(args.bytes)
       /\ outcome = ReturnPair(args.mime_type, bytes_to_base64(args.bytes))

\* C19 witness: the bytes 77, 0, 255 under the MIME string "a;base64",
\* which ends like the start of the marker: the URL splits into that MIME
\* string and the encoding "TQD/".
C19_Witness ==
    /\ op = "split_data_url"
    /\ "bytes" \in DOMAIN args
    /\ args.bytes = << 77, 0, 255 >>
    /\ args.mime_type = "a;base64"
    /\ args.data_url = "data:a;base64;base64,TQD/"
    /\ outcome = ReturnPair("a;base64", "TQD/")

\* FormatError: the two exceptions of split_data_url.
MissingPrefix ==
    Throw("deitel::openai::util::split_data_url: not a data URL (missing 'data:' prefix)")

MissingMarker ==
    Throw("deitel::openai::util::split_data_url: missing ';base64,' segment")

\* The position of the first marker of a string that holds one.
FirstMarker(s) ==
    CHOOSE p \in 1..Len(s) : MarkerAt(s, p) /\ \A q \in 1..(p - 1) : ~MarkerAt(s, q)

\* C20: split_data_url fails with the format error for a string that does
\* not start with "data:" and for one that starts with it and holds no
\* marker; every other string it splits at its first marker.
\* data_url_to_bytes fails the same way on the same strings and then
\* leaves the caller's mime_type_out as it was.
C20_DataUrlFormatErrors ==
    op \in {"split_data_url", "data_url_to_bytes"} =>
       LET u == args.data_url IN
       IF ~starts_with(u, "data:")
       THEN outcome = MissingPrefix /\ mime_type_out = Untouched
       ELSE IF ~HasMarker(u)
       THEN outcome = MissingMarker /\ mime_type_out = Untouched
       ELSE /\ outcome \notin {MissingPrefix, MissingMarker}
            /\ op = "split_data_url" =>
                  outcome = ReturnPair(SubSeq(u, 6, FirstMarker(u) - 1),
                                       SubSeq(u, FirstMarker(u) + Len(Marker), Len(u)))

\* C20 witness: data_url_to_bytes with a mime_type_out pointer on a string
\* that starts with "data:" and holds no marker: the format error, and the
\* caller's string is as before.
C20_Witness ==
    /\ op = "data_url_to_bytes"
    /\ args.has_out
    /\ args.data_url = "data:image/png,QQ=="
    /\ outcome = MissingMarker
    /\ mime_type_out = Untouched

(***************************************************************************)
(* Base64 and MIME types, checked under SpecUtil.                          *)
(***************************************************************************)
\* C21: decoding what bytes_to_base64 made of the bytes b gives b back, for
\* every b, the empty one and every length modulo 3 included; and
\* data_url_to_bytes gives b back from bytes_to_data_url(b, m) for a MIME
\* string m that does not hold the marker.
C21_Base64RoundTrip ==
    /\ (op = "base64_to_bytes" /\ "bytes" \in DOMAIN args) =>
          /\ args.b64 = bytes_to_base64(args.bytes)
          /\ outcome = ReturnBytes(args.bytes)
    /\ (op = "data_url_to_bytes" /\ "bytes" \in DOMAIN args
           /\ ~HasMarker(args.mime_type)) =>
          /\ args.data_url = bytes_to_data_url(args.bytes, args.mime_type)
          /\ outcome = ReturnBytes(args.bytes)

\* C21 witness: the two bytes 77, 0, a length that leaves one padding
\* character, are encoded as "TQA=" and decoded back.
C21_Witness ==
    /\ op = "base64_to_bytes"
    /\ "bytes" \in DOMAIN args
    /\ args.bytes = << 77, 0 >>
    /\ args.b64 = "TQA="
    /\ outcome = ReturnBytes(<< 77, 0 >>)

\* The fixed table of guess_mime_type, by extension in small letters.
MimeTable ==
    [e \in TableExtensions |->
       CASE e = ".png"  -> "image/png"
         [] e = ".jpg"  -> "image/jpeg"
         [] e = ".jpeg" -> "image/jpeg"
         [] e = ".gif"  -> "image/gif"
         [] e = ".webp" -> "image/webp"
         [] e = ".bmp"  -> "image/bmp"
         [] e = ".svg"  -> "image/svg+xml"
         [] e = ".mp4"  -> "video/mp4"
         [] e = ".mov"  -> "video/quicktime"
         [] e = ".webm" -> "video/webm"
         [] e = ".mp3"  -> "audio/mpeg"
         [] e = ".wav"  -> "audio/wav"
         [] e = ".ogg"  -> "audio/ogg"
         [] e = ".flac" -> "audio/flac"
         [] e = ".m4a"  -> "audio/mp4"
         [] e = ".pdf"  -> "application/pdf"
         [] e = ".json" -> "application/json"
         [] e = ".txt"  -> "text/plain"
         [] e = ".vtt"  -> "text/vtt"]

\* The characters c and d are the same up to letter case.
SameLetter(c, d) ==
    \/ c = d
    \/ \E i \in 1..Len(LowerCase) :
          {c, d} = {SubSeq(LowerCase, i, i), SubSeq(UpperCase, i, i)}

\* The strings a and b differ at most in letter case.
SameLetters(a, b) ==
    /\ Len(a) = Len(b)
    /\ \A i \in 1..Len(a) : SameLetter(SubSeq(a, i, i), SubSeq(b, i, i))

\* The extension of a path dir + stem + ext: ext when there is one, else
\* what follows the last dot of the stem when that dot does not lead.
PathExtension(stem, ext) ==
    IF ext # "" THEN ext
    ELSE IF stem = "archive.tar" THEN ".tar" ELSE ""

\* C22: guess_mime_type returns a content-type for every path.  An extension
\* that is a table entry up to letter case gives that entry's type, so two
\* spellings of one extension give the same type; every other extension and
\* a missing one give application/octet-stream.
C22_MimeTypeTotalCaseInsensitive ==
    op = "guess_mime_type" =>
       LET e == PathExtension(args.stem, args.ext) IN
       /\ outcome.kind = "return"
       /\ \A t \in TableExtensions :
             SameLetters(e, t) => outcome = ReturnStr(MimeTable[t])
       /\ (\A t \in TableExtensions : ~SameLetters(e, t)) =>
             outcome = ReturnStr("application/octet-stream")
       /\ outcome = ReturnStr(guess_mime_type(args.dir \o args.stem \o toupper(args.ext)))

\* C22 witness: photo.JPG in a directory gives image/jpeg.
C22_Witness ==
    /\ op = "guess_mime_type"
    /\ args.path = "art/photo.JPG"
    /\ outcome = ReturnStr("image/jpeg")

(***************************************************************************)
(* The indices of split_data_url, checked under SpecUtil.                  *)
(***************************************************************************)
\* C30: for a string that starts with "data:" and holds the marker, the
\* position of the first marker, counted from 0 as std::string::find
\* counts, is at least 5, so marker_pos - 5 is not negative; substr(5,
\* marker_pos - 5) and substr(marker_pos + 8) start inside the string or at
\* its end; and "data:" + MIME part + ";base64," + payload part is the
\* string.
C30_SplitIndexSafety ==
    (op = "split_data_url" /\ starts_with(args.data_url, "data:")
       /\ HasMarker(args.data_url)) =>
       LET u          == args.data_url
           marker_pos == FirstMarker(u) - 1
           mime_len   == marker_pos - 5
       IN  /\ marker_pos >= 5
           /\ mime_len >= 0
           /\ 5 + mime_len <= Len(u)
           /\ marker_pos + Len(Marker) <= Len(u)
           /\ Returns(outcome)
           /\ Len(outcome.first) = mime_len
           /\ Len(outcome.second) = Len(u) - (marker_pos + Len(Marker))
           /\ "data:" \o outcome.first \o Marker \o outcome.second = u

\* C30 witness: the shortest such string, "data:;base64,": the marker is
\* at position 5, and the MIME part and the payload part are empty.
C30_Witness ==
    /\ op = "split_data_url"
    /\ args.data_url = "data:;base64,"
    /\ FirstMarker(args.data_url) - 1 = 5
    /\ outcome = ReturnPair("", "")

(***************************************************************************)
(* The generic tool-call form and the two image extractors, checked under  *)
(* SpecNav.                                                                *)
(***************************************************************************)
\* C27: first_tool_call_output never returns a generic item, one of type
\* "tool_call", whose tool_name is absent or is not the tool type asked
\* for; also for the tool type "tool", for which tool_type + "_call" is
\* "tool_call".
C27_ToolNameIsolation ==
    (op = "first_tool_call_output" /\ Returns(outcome)) =>
       LET item == OutputOf(response)[outcome.ref] IN
       HasType(item, "tool_call") =>
          /\ "tool_name" \in DOMAIN item.o
          /\ item.o["tool_name"] = JStr(tool_type)

\* What the other image extractor makes of the response of the call made
\* last.
OtherImageExtractor ==
    IF op = "first_image_output" THEN first_image_base64_output(response)
    ELSE first_image_output(response)

\* C28: on every response util::first_image_base64_output and
\* first_image_output both fail or both return the same string, also when
\* the output holds a generic item {type "tool_call", tool_name
\* "image_generation"} before or instead of an "image_generation_call"
\* item.
C28_ImageExtractorsAgree ==
    op \in {"first_image_output", "first_image_base64_output"} =>
       LET other == OtherImageExtractor IN
       \/ Throws(outcome) /\ Throws(other)
       \/ Returns(outcome) /\ Returns(other) /\ outcome.str = other.str

(***************************************************************************)
(* The extension entries of the multipart requests, checked under SpecMap. *)
(***************************************************************************)
\* The text part of a name with a value, up to the delimiter that follows.
TextPart(name, value) == TextPartHeader(name) \o value \o "\r\n--"

FirstAt(s, needle) == Min(positions(s, needle, 1))

LastAt(s, needle) == Max(positions(s, needle, 1))

\* The typed members a multipart builder sends as text parts.
TypedTextKeys(d) == {"model"} \cup PresentOptionals(d)

\* The string holds a character that a JSON string literal escapes.
JsonEscapes(str) ==
    \E i \in 1..Len(str) : SubSeq(str, i, i) \in {"\"", "\\", "\n", "\r"}

\* Every extension entry has a text part with that rendering of its value,
\* after the first part of every typed text field and before the file
\* parts.
ExtensionPartsPlaced(rendering(_)) ==
    LET body == outcome.req.body
        ext  == descriptor.extra.o
    IN  \A k \in DOMAIN ext :
           LET part == TextPart(k, rendering(ext[k])) IN
           /\ positions(body, part, 1) # {}
           /\ \A t \in TypedTextKeys(descriptor) :
                 FirstAt(body, TextPartHeader(t)) < LastAt(body, part)
           /\ LastAt(body, part) < FirstAt(body, "\"; filename=\"")

\* s wrapped in double quotes, and nothing else done to it.
Quoted(v) == IF v.kind = "string" THEN "\"" \o v.s \o "\"" ELSE dump(v)

\* C29 (as claimed): in an image-edit and a transcription request every
\* extension entry is a text part holding the compact JSON text of its
\* value, after the typed text fields and before the file parts, and a
\* string value s is sent as s wrapped in double quotes.  The JSON text of
\* a string also escapes: the value say "hi" is sent as "say \"hi\"".
C29_ExtensionPartsQuoted ==
    (op \in MultipartBuilders /\ Returns(outcome)) =>
       /\ ExtensionPartsPlaced(dump)
       /\ ExtensionPartsPlaced(Quoted)

\* C29 (amended): every extension entry is a text part holding the compact
\* JSON text of its value, after the typed text fields and before the
\* file parts; for a string value s that text is a JSON string literal: it
\* starts and ends with a double quote, it is s wrapped in double quotes
\* when s holds no character that JSON escapes, and it is never s itself,
\* which is what a typed string member is sent as.
C29_ExtensionPartsSerialized ==
    (op \in MultipartBuilders /\ Returns(outcome)) =>
       /\ ExtensionPartsPlaced(dump)
       /\ \A k \in DOMAIN descriptor.extra.o :
             LET v == descriptor.extra.o[k] IN
             v.kind = "string" =>
                /\ starts_with(dump(v), "\"") /\ EndsWith(dump(v), "\"")
                /\ Len(dump(v)) >= Len(v.s) + 2
                /\ ~JsonEscapes(v.s) => dump(v) = "\"" \o v.s \o "\""
                /\ field_text(v) = v.s /\ dump(v) # v.s

\* C29 witness: an image-edit request with the extension entries
\* background and prompt: the two are sent in their JSON form.
C29_Witness ==
    /\ op = "ImagesAPI::edit_request"
    /\ Returns(outcome)
    /\ descriptor.mask_path.has
    /\ PresentOptionals(descriptor) = {"size"}
    /\ DOMAIN descriptor.extra.o = {"background", "prompt"}
    /\ HasTextPart(outcome.req.body, "background", "\"transparent\"")
    /\ HasTextPart(outcome.req.body, "prompt", "\"say \\\"hi\\\"\"")

(***************************************************************************)
(* The defaults of the request structs, checked under SpecMap.             *)
(***************************************************************************)
\* The descriptor is as constructed but for its required members.
FreshDescriptor ==
    /\ descriptor.extra = JObj(<< >>)
    /\ descriptor.opt = (IF descriptor.endpoint = "responses" THEN FreshResponsesOpt
                         ELSE [k \in DOMAIN descriptor.opt |-> None])
    /\ descriptor.endpoint = "images_edit" => descriptor.mask_path = None

\* The Responses part of C25: a descriptor as constructed is sent with
\* "temperature":1.0 and "top_p":1.0.
ResponsesDefaultsSent ==
    (Built /\ FreshDescriptor /\ descriptor.endpoint = "responses") =>
       /\ positions(outcome.req.body, "\"temperature\":1.0", 1) # {}
       /\ positions(outcome.req.body, "\"top_p\":1.0", 1) # {}

\* C25: a descriptor in which only the required members were set is sent
\* with the documented defaults: temperature 1.0 and top_p 1.0 by the
\* Responses builder, n = 1 by the two image builders.
C25_DocumentedDefaults ==
    (Built /\ FreshDescriptor) =>
       /\ ResponsesDefaultsSent
       /\ descriptor.endpoint = "images_generate" =>
             positions(outcome.req.body, "\"n\":1", 1) # {}
       /\ descriptor.endpoint = "images_edit" =>
             HasTextPart(outcome.req.body, "n", "1")

(***************************************************************************)
(* Dispatch, checked under SpecClient.                                     *)
(***************************************************************************)
\* What the request builder of a call makes of the descriptor r: one
\* outcome for each boundary random_boundary can draw.
BuiltBy(call, r) ==
    CASE call = "ResponsesAPI::create"   -> { ResponsesAPI_create_request(config, r) }
      [] call = "ImagesAPI::generate"    -> { ImagesAPI_generate_request(config, r) }
      [] call = "ImagesAPI::edit" ->
            { ImagesAPI_edit_request(config, r, d) : d \in BoundaryDraws }
      [] call = "ModerationsAPI::create" -> { ModerationsAPI_create_request(config, r) }
      [] call = "SpeechAPI::create"      -> { SpeechAPI_create_request(config, r) }
      [] call \in {"TranscriptionsAPI::create", "TranscriptionsAPI::create_json"} ->
            { TranscriptionsAPI_create_request(config, r, d) : d \in BoundaryDraws }
      [] call = "VideosAPI::create"      -> { VideosAPI_create_request(config, r) }

\* C24: a call whose request cannot be built hands nothing to the
\* Transport and fails as the builder did; every other call hands the
\* request it built to the Transport once.  When the Transport fails or
\* answers with a status outside 200..299 the call fails, and the Transport
\* was still used once.
C24_ExactlyOnceDispatch ==
    op \in Calls =>
       LET built == BuiltBy(op, descriptor) IN
       IF \E b \in built : Throws(b)
       THEN sent = << >> /\ outcome \in built /\ reply = NoReply
       ELSE /\ Len(sent) = 1
            /\ \E b \in built : sent[1] = b.req
            /\ (reply = NoReply \/ reply.status_code \notin 200..299) =>
                  Throws(outcome)

\* C24 witness: the image edit call answered 500: the call fails and the
\* one request built was handed to the Transport once.
C24_Witness ==
    /\ op = "ImagesAPI::edit"
    /\ descriptor.image_path = "cat.png"
    /\ reply # NoReply
    /\ reply.status_code = 500
    /\ Len(sent) = 1
    /\ sent[1].url = config.base_url \o "/images/edits"
    /\ outcome = Throw("Images API error: " \o reply.body)

(***************************************************************************)
(* The life of a client: construction, changes of the configuration        *)
(* through mutable_config(), and request builds, in any order.             *)
(***************************************************************************)
\* OpenAIClient(OpenAIConfig config): the client's config_ or the
\* exception.
OpenAIClient(cfg) ==
    IF cfg.api_key = "" THEN Throw("OpenAIConfig.api_key is required")
    ELSE [kind |-> "return", config_ |-> cfg]

\* OpenAIClient(): key is what std::getenv("OPENAI_API_KEY") gives, None
\* for a null pointer; the other members are as OpenAIConfig declares them.
OpenAIClient_env(key) ==
    IF ~key.has \/ key.v = ""
    THEN Throw("OPENAI_API_KEY environment variable is not set")
    ELSE [kind |-> "return",
          config_ |-> [api_key |-> key.v, base_url |-> "https://api.openai.com/v1",
                       organization |-> "", project |-> ""]]

\* The configurations handed to the constructor and the values written
\* through mutable_config().
ApiKeys == { "", "sk-test", "sk-other" }

ConstructorConfigs ==
    { [api_key |-> k, base_url |-> "https://api.openai.com/v1",
       organization |-> org, project |-> ""]
      : k \in ApiKeys, org \in {"", "org_1"} }

ConfigEdits ==
    { [member |-> "api_key", value |-> k] : k \in ApiKeys }
    \cup { [member |-> "organization", value |-> v] : v \in {"", "org_1"} }
    \cup { [member |-> "project", value |-> v] : v \in {"", "proj_1"} }

\* No client exists yet.
InitConfig == Idle /\ config = NoClient

Construct ==
    /\ config = NoClient
    /\ \E cfg \in ConstructorConfigs :
          LET made == OpenAIClient(cfg) IN
          /\ config' = (IF Throws(made) THEN NoClient ELSE made.config_)
          /\ outcome' = (IF Throws(made) THEN made ELSE NoCall)
    /\ op' = "OpenAIClient"
    /\ UNCHANGED <<response, tool_type, descriptor, sent, reply, args, mime_type_out, rand_state, thread, sched>>

ConstructFromEnvironment ==
    /\ config = NoClient
    /\ \E key \in {None} \cup { Some(k) : k \in ApiKeys } :
          LET made == OpenAIClient_env(key) IN
          /\ config' = (IF Throws(made) THEN NoClient ELSE made.config_)
          /\ outcome' = (IF Throws(made) THEN made ELSE NoCall)
    /\ op' = "OpenAIClient"
    /\ UNCHANGED <<response, tool_type, descriptor, sent, reply, args, mime_type_out, rand_state, thread, sched>>

\* client.mutable_config().member = value: the reference is to config_
\* itself, and nothing tests what is written.
MutableConfig ==
    /\ config # NoClient
    /\ \E e \in ConfigEdits :
          config' = [config EXCEPT ![e.member] = e.value]
    /\ op' = "mutable_config"
    /\ outcome' = NoCall
    /\ UNCHANGED <<response, tool_type, descriptor, sent, reply, args, mime_type_out, rand_state, thread, sched>>

\* A request is built with the configuration as it is now.
BuildRequest ==
    /\ config # NoClient
    /\ \/ \E r \in CallResponsesRequests :
             /\ descriptor' = r
             /\ outcome' = ResponsesAPI_create_request(config, r)
             /\ op' = "ResponsesAPI::create_request"
       \/ \E r \in CallImageEditRequests, draws \in BoundaryDraws :
             /\ descriptor' = r
             /\ outcome' = ImagesAPI_edit_request(config, r, draws)
             /\ op' = "ImagesAPI::edit_request"
    /\ UNCHANGED <<response, tool_type, config, sent, reply, args, mime_type_out, rand_state, thread, sched>>

ConfigNext ==
    \/ Construct
    \/ ConstructFromEnvironment
    \/ MutableConfig
    \/ BuildRequest

SpecConfig == InitConfig /\ [][ConfigNext]_vars

\* The request built last carries that Authorization header.
Authorization(value) ==
    /\ op \in JsonBuilders \cup MultipartBuilders
    /\ Returns(outcome)
    /\ \E i \in 1..Len(outcome.req.headers) :
          outcome.req.headers[i] = HttpHeader("Authorization", value)

\* C26: once a client is constructed, whatever is written through
\* mutable_config() and whatever is built, its api_key is not empty and no
\* built request carries the Authorization value "Bearer " without a
\* credential.
C26_CredentialInvariant ==
    config # NoClient =>
       /\ config.api_key # ""
       /\ ~Authorization("Bearer ")

(***************************************************************************)
(* Two calls on two threads.  A call that builds a multipart request runs  *)
(* random_boundary first, which calls std::rand() sixteen times; the rest  *)
(* of every call works on the call's own arguments and is one step.        *)
(***************************************************************************)
\* The most times the processor passes from a thread that has not finished
\* to the other thread.
MaxSwitches == 1

Threads == {1, 2}

\* std::rand(): the generator of the C standard's portable example,
\* next = next * 1103515245 + 12345 modulo 2^32, on 16-bit halves
\* (1103515245 = 16838 * 65536 + 20077).
rand_next(state) ==
    LET low == state.lo * 20077 + 12345 IN
    [lo |-> low % 65536,
     hi |-> (((state.hi * 20077) % 65536) + ((state.lo * 16838) % 65536)
             + (low \div 65536)) % 65536]

\* What std::rand() returns from the new state: (next / 65536) % 32768.
rand_value(state) == state.hi % 32768

\* The calls the two threads make, each on a descriptor or response of its
\* own.
ThreadCalls ==
    { [call |-> "ImagesAPI::edit_request",
       r |-> [endpoint |-> "images_edit", model |-> "gpt-image-1",
              image_path |-> "cat.png", mask_path |-> None,
              opt |-> FreshOpt(ImageEditOptionalKeys), extra |-> JObj(<< >>)]],
      [call |-> "TranscriptionsAPI::create_request",
       r |-> [endpoint |-> "transcriptions", model |-> "whisper-1",
              file_path |-> "talk.mp3",
              opt |-> FreshOpt(TranscriptionOptionalKeys), extra |-> JObj(<< >>)]],
      [call |-> "ImagesAPI::generate_request",
       r |-> [endpoint |-> "images_generate", model |-> "gpt-image-1",
              prompt |-> "a robot",
              opt |-> FreshOpt(ImagesGenerateOptionalKeys), extra |-> JObj(<< >>)]],
      [call |-> "first_text_output",
       r |-> JObj([output |-> JArr(<< Message(JArr(<< Text("hello") >>)) >>)])] }

\* The calls that start with random_boundary.
CallsRandomBoundary(call) ==
    call \in {"ImagesAPI::edit_request", "TranscriptionsAPI::create_request"}

\* What the call c returns once its boundary digits are drawn.
call_result(cfg, c, draws) ==
    CASE c.call = "ImagesAPI::edit_request" -> ImagesAPI_edit_request(cfg, c.r, draws)
      [] c.call = "TranscriptionsAPI::create_request" ->
            TranscriptionsAPI_create_request(cfg, c.r, draws)
      [] c.call = "ImagesAPI::generate_request" -> ImagesAPI_generate_request(cfg, c.r)
      [] c.call = "first_text_output" -> first_text_output(c.r)

\* A thread about to make the call c.
NewThread(c) ==
    [call |-> c.call, r |-> c.r,
     pc |-> IF CallsRandomBoundary(c.call) THEN "rand_load" ELSE "return",
     seen |-> DefaultSeed, draws |-> << >>, result |-> NoCall]

\* The thread t may take the next step: it ran last, or the thread that ran
\* last has finished, or a switch is left.
MayRun(t) ==
    IF sched.running \in {0, t} THEN TRUE
    ELSE IF thread[sched.running].pc = "done" THEN TRUE
    ELSE sched.switches < MaxSwitches

Run(t) ==
    [running |-> t,
     switches |-> IF sched.running \in {0, t} THEN sched.switches
                  ELSE IF thread[sched.running].pc = "done" THEN sched.switches
                  ELSE sched.switches + 1]

\* Two threads are started, each with a call of its own.
Spawn ==
    /\ op = "none"
    /\ \E c1 \in ThreadCalls, c2 \in ThreadCalls :
          thread' = << NewThread(c1), NewThread(c2) >>
    /\ op' = "concurrent"
    /\ UNCHANGED <<response, tool_type, config, descriptor, outcome, sent, reply, args, mime_type_out, rand_state, sched>>

\* std::rand() reads its state.  No lock of the library covers the read and
\* the write that follows: with a libc that locks inside rand() the two
\* happen without a step of the other thread between them, without one the
\* other thread may step in.
RandLoad ==
    /\ op = "concurrent"
    /\ \E t \in Threads :
          /\ thread[t].pc = "rand_load"
          /\ MayRun(t)
          /\ thread' = [thread EXCEPT ![t].seen = rand_state, ![t].pc = "rand_store"]
          /\ sched' = Run(t)
    /\ UNCHANGED <<op, response, tool_type, config, descriptor, outcome, sent, reply, args, mime_type_out, rand_state>>

\* std::rand() writes the next state and returns; random_boundary keeps
\* the low four bits as the next digit and leaves its loop after sixteen.
RandStore ==
    /\ op = "concurrent"
    /\ \E t \in Threads :
          /\ thread[t].pc = "rand_store"
          /\ MayRun(t)
          /\ LET next  == rand_next(thread[t].seen)
                 draws == Append(thread[t].draws, rand_value(next) % 16)
             IN  /\ rand_state' = next
                 /\ thread' = [thread EXCEPT
                                 ![t].draws = draws,
                                 ![t].pc = IF Len(draws) = BoundaryDigits
                                           THEN "return" ELSE "rand_load"]
          /\ sched' = Run(t)
    /\ UNCHANGED <<op, response, tool_type, config, descriptor, outcome, sent, reply, args, mime_type_out>>

\* The rest of the call, on the thread's own descriptor or response.
Return ==
    /\ op = "concurrent"
    /\ \E t \in Threads :
          /\ thread[t].pc = "return"
          /\ MayRun(t)
          /\ thread' = [thread EXCEPT
                          ![t].result = call_result(config, thread[t], thread[t].draws),
                          ![t].pc = "done"]
          /\ sched' = Run(t)
    /\ UNCHANGED <<op, response, tool_type, config, descriptor, outcome, sent, reply, args, mime_type_out, rand_state>>

ConcNext ==
    \/ Spawn
    \/ RandLoad
    \/ RandStore
    \/ Return

SpecConc == InitMap /\ [][ConcNext]_vars

\* The call c run alone from the generator state s: its result and the
\* state it leaves.
RECURSIVE DrawsFrom(_, _)
DrawsFrom(s, n) ==
    IF n = 0 THEN << >>
    ELSE << rand_value(rand_next(s)) % 16 >> \o DrawsFrom(rand_next(s), n - 1)

RECURSIVE StateAfter(_, _)
StateAfter(s, n) == IF n = 0 THEN s ELSE StateAfter(rand_next(s), n - 1)

Alone(c, s) ==
    IF CallsRandomBoundary(c.call)
    THEN [result |-> call_result(config, c, DrawsFrom(s, BoundaryDigits)),
          state  |-> StateAfter(s, BoundaryDigits)]
    ELSE [result |-> call_result(config, c, << >>), state |-> s]

\* The results of the two calls when the call of thread t runs first and
\* the other one after it.
OneAfterTheOther(t) ==
    LET u      == 3 - t
        first  == Alone(thread[t], DefaultSeed)
        second == Alone(thread[u], first.state)
    IN  [x \in Threads |-> IF x = t THEN first.result ELSE second.result]

BothDone == op = "concurrent" /\ \A t \in Threads : thread[t].pc = "done"

\* C23: two calls that run at the same time on descriptors or responses of
\* their own share nothing, the boundary generation of the multipart
\* builders included: however their steps interleave, both return what
\* they return when one runs after the other.
C23_InterleavingsSerializable ==
    BothDone =>
       \E t \in Threads :
          \A x \in Threads : thread[x].result = OneAfterTheOther(t)[x]

=============================================================================
